---- MODULE Spec2Model ----
(***************************************************************************)
(* Position ledger, period/retry counters and polling loop of the Kalshi   *)
(* trading bot (src/services/orderExecutor.ts, strategyRunner.ts).         *)
(*                                                                         *)
(* Units.  Time is counted in minutes (Date.now() / 60000).  Money is      *)
(* counted in micro-dollars, so that price + price * 0.007 is exact for    *)
(* the prices used (multiples of $0.001).  An optional field (yesSide?,    *)
(* noSide?) is a sequence of length 0 or 1.  strikePrice = 0 stands for an *)
(* undefined strike: the code only ever tests it for truthiness.           *)
(* A Map is a function whose DOMAIN is the set of keys.                    *)
(***************************************************************************)
EXTENDS Integers, Sequences, FiniteSets, TLC

\* ------------------------------------------------------------------ bounds
\* number of clock advances explored
MaxTicks == 1

\* ------------------------------------------------------- program constants
\* one dollar (the payout of a winning contract), in micro-dollars
USD == 1000000
\* KALSHI_FEE_RATE = 0.007, per mille
KALSHI_FEE_RATE == 7
\* CONFIG.trading.maxArbitragePositions
MAX_ARBITRAGE_POSITIONS == 3
\* CONFIG.trading.maxTechnicalPositions
MAX_TECHNICAL_POSITIONS == 1
\* CONFIG.trading.maxOrderRetries
MAX_RETRIES == 5
\* CONFIG.trading.autoClearMinutes
AUTO_CLEAR_MINUTES == 15
\* retention of the candle maps: 4 hours, in minutes
RETENTION_MINUTES == 240
\* CONFIG.trading.profitTargetUsd, in dollars
PROFIT_TARGET_USD == 20
\* CONFIG.trading.stdevLevels, in thousandths of a percent
STDEV1 == 50
STDEV2 == 100
STDEV3 == 150
STDEV4 == 200
\* STOP_LOSS_THRESHOLD = 0.0005, in ten-thousandths
STOP_LOSS_THRESHOLD == 5
\* CONFIG.trading.minTimeToExpiryMin
MIN_TIME_TO_EXPIRY_MIN == 5
\* the legacy stop loss, in percent
STOP_LOSS_PERCENT == 15
\* the band around $1.00 in which the prices count as normalized, in
\* micro-dollars
NORMALIZED_BAND == 20000

\* ------------------------------------------------------------ input domains
\* A market ticker is <<series ticker, close time>>, as in
\* "KXBTC15M-26FEB010800-00": series, then the settlement time.
\* Two consecutive markets of the 15-minute series and one hourly market.
T1 == << "KXBTC15M", 615 >>
T2 == << "KXBTC15M", 630 >>
TE == << "KXETHD", 660 >>
Tickers == { T1, T2, TE }
Series == { t[1] : t \in Tickers }
\* market.open_time: a 15-minute market opens when the previous one closes
OpenTime(marketTicker) == IF marketTicker = TE THEN 600 ELSE marketTicker[2] - 15
StartTimes == { 605 }
TickSteps == { 20 }

\* ------------------------------------------------------------- Map helpers
EmptyMap == << >>
MapGet(m, k, default) == IF k \in DOMAIN m THEN m[k] ELSE default
MapSet(m, k, v) == [x \in (DOMAIN m) \cup {k} |-> IF x = k THEN v ELSE m[x]]
MapDelete(m, k) == [x \in (DOMAIN m) \ {k} |-> m[x]]

VARIABLES
    now,                  \* Date.now(), minutes
    ticks,                \* clock advances so far
    candleIntervalMs,     \* OrderExecutor.candleIntervalMs, minutes
    arbitragePositions,   \* OrderExecutor.arbitragePositions (the ledger)
    positionsByCandle,    \* candle -> series -> [arbitrage, technical]
    failedOrdersByCandle, \* candle -> ticker -> retry count
    lastCandleTimestamp,  \* OrderExecutor.lastCandleTimestamp
    polling,              \* series -> progress of StrategyRunner.startPolling
    cycles,               \* series -> the run() invocations in progress
    exhausted,            \* ticker -> candle in which its retries hit the cap
    pendingCloses,        \* closePosition calls suspended in a sell order
    pendingEntries,       \* executeArbitrage calls suspended in their orders
    sellOrders,           \* << ticker, side >> -> sell orders placed for the leg
    last                  \* the operation that made the last step

vars == << now, ticks, candleIntervalMs, arbitragePositions,
           positionsByCandle, failedOrdersByCandle, lastCandleTimestamp,
           polling, cycles, exhausted, pendingCloses, pendingEntries,
           sellOrders, last >>

\* the variables of the polling loops
pollVars == << polling, cycles >>

\* the variables of the calls suspended at an await
callVars == << pendingCloses, pendingEntries, sellOrders >>

\* ------------------------------------------------------------ pure helpers
\* setCandleInterval: hourly series end with "D"
setCandleInterval(seriesTicker) ==
    IF seriesTicker \in {"KXBTCD", "KXETHD", "KXSOLD", "KXXRPD"} THEN 60 ELSE 15

roundToCandle(timestamp, interval) == (timestamp \div interval) * interval

extractSeriesTicker(marketTicker) == marketTicker[1]

\* market.close_time
CloseTime(marketTicker) == marketTicker[2]

ZeroCounts == [arbitrage |-> 0, technical |-> 0]

getPositionsInCurrentCandle(pbc, currentCandle, seriesTicker, strategyType) ==
    MapGet(MapGet(pbc, currentCandle, EmptyMap), seriesTicker, ZeroCounts)[strategyType]

\* the pruning loop shared by incrementCandlePositions and trackFailedOrder
PruneOldCandles(m, nowv) ==
    [c \in { c \in DOMAIN m : ~(c < nowv - RETENTION_MINUTES) } |-> m[c]]

\* the bookkeeping of a fill as if it did not count the position
incrementCandlePositionsSkipped(pbc, currentCandle, seriesTicker, strategyType, nowv) ==
    PruneOldCandles(pbc, nowv)

incrementCandlePositions(pbc, currentCandle, seriesTicker, strategyType, nowv) ==
    LET seriesMap == MapGet(pbc, currentCandle, EmptyMap)
        counts    == MapGet(seriesMap, seriesTicker, ZeroCounts)
        counts2   == [counts EXCEPT ![strategyType] = @ + 1]
    IN  PruneOldCandles(MapSet(pbc, currentCandle,
                               MapSet(seriesMap, seriesTicker, counts2)), nowv)

getRetryCount(fobc, currentCandle, ticker) ==
    MapGet(MapGet(fobc, currentCandle, EmptyMap), ticker, 0)

trackFailedOrder(fobc, currentCandle, ticker, nowv) ==
    LET failedOrders == MapGet(fobc, currentCandle, EmptyMap)
        currentCount == MapGet(failedOrders, ticker, 0)
    IN  PruneOldCandles(MapSet(fobc, currentCandle,
                               MapSet(failedOrders, ticker, currentCount + 1)), nowv)

\* the same as if the whole period's counters were forgotten
clearFailedOnClosedWholePeriod(fobc, currentCandle, ticker) ==
    MapDelete(fobc, currentCandle)

\* executeArbitrage, lines 179-188 / 203-212 / 274-279 / 290-295:
\* forget the retry count of a market found closed
clearFailedOnClosed(fobc, currentCandle, ticker) ==
    IF currentCandle \in DOMAIN fobc /\ ticker \in DOMAIN fobc[currentCandle]
    THEN LET failedOrders == MapDelete(fobc[currentCandle], ticker)
         IN  IF DOMAIN failedOrders = {}
             THEN MapDelete(fobc, currentCandle)
             ELSE MapSet(fobc, currentCandle, failedOrders)
    ELSE fobc

fee(price) == (price * KALSHI_FEE_RATE) \div 1000

\* ---------------------------------------------------------------- inputs
\* arguments of executeArbitrage; forceSide "" is an absent forceSide
ExecInputs ==
    { \* a valid two-leg arbitrage
      [yesPrice |-> 300000, noPrice |-> 300000, quantity |-> 1,
       bothSides |-> TRUE,  forceSide |-> "",    strikePrice |-> 0],
      \* two legs whose prices sum to less than $1.00, but not with the fees
      [yesPrice |-> 300000, noPrice |-> 695000, quantity |-> 2,
       bothSides |-> TRUE,  forceSide |-> "",    strikePrice |-> 0],
      \* single leg, the cheaper side
      [yesPrice |-> 300000, noPrice |-> 695000, quantity |-> 100,
       bothSides |-> FALSE, forceSide |-> "",    strikePrice |-> 0],
      \* single leg at a price placeOrder refuses
      [yesPrice |-> 0,      noPrice |-> 300000, quantity |-> 1,
       bothSides |-> FALSE, forceSide |-> "",    strikePrice |-> 0],
      \* single leg, forced side with a strike (technical strategy)
      [yesPrice |-> 700000, noPrice |-> 300000, quantity |-> 1,
       bothSides |-> FALSE, forceSide |-> "no",  strikePrice |-> 100000],
      \* single leg, forced on the dearer side
      [yesPrice |-> 700000, noPrice |-> 300000, quantity |-> 1,
       bothSides |-> FALSE, forceSide |-> "yes", strikePrice |-> 100000] }

\* Answers of the exchange to a market lookup: the status of the market, or
\* "error" when the request fails.  A market is active until its close
\* time; after it the exchange reports it closed, possibly with a delay.
LookupAnswers == { "active", "closed", "error" }
MarketAnswers(ticker, nowv) ==
    IF nowv < ticker[2] THEN { "active", "error" } ELSE LookupAnswers
\* account balance in micro-dollars; -1: the balance lookup failed
Balances == { -1, 0, 200 * USD }

\* The answers of the exchange during one executeArbitrage call.  An answer
\* that follows a failing one is never asked for: it is fixed to a default.
ExchangeAnswers ==
    { e \in [lookup : LookupAnswers, retryLookup : LookupAnswers,
             balance : Balances, yesOk : BOOLEAN, noOk : BOOLEAN] :
        /\ e.lookup # "active" => e.retryLookup = "active"
        /\ (e.lookup # "active" \/ e.retryLookup # "active") => e.balance = 0
        /\ e.balance = 0 => (~e.yesOk /\ ~e.noOk) }

NoTicker == << "", 0 >>
\* the run() invocations of one runner in progress, counted by the await
\* they are suspended at
NoCycles == [fetchMarket |-> 0, fetchData |-> 0]

\* ------------------------------------------------------------- placeOrder
\* Math.round(config.price * 100)
pricePerContractCents(price) == (price + 5000) \div 10000

\* placeOrder's own validation: TRUE when the request is sent to the
\* exchange (kalshiService.createOrder is called)
placeOrderSends(action, price, quantity) ==
    IF action = "buy"
    THEN /\ ~(price <= 0 \/ price >= USD)
         /\ ~(quantity <= 0)
         \* maxCostCents = ceil(cents * quantity * 1.05)
         /\ LET maxCostCents == (pricePerContractCents(price) * quantity * 105 + 99) \div 100
            IN  ~(maxCostCents < quantity \/ maxCostCents > 10000 * quantity)
    ELSE TRUE

\* placeOrder as if a request sent were an order placed
placeOrderIgnoresAnswer(action, price, quantity, exchangeOk) ==
    placeOrderSends(action, price, quantity)

\* the result (success) of placeOrder, given the exchange's answer to the
\* request: exchangeOk is TRUE when createOrder answers with an order id
\* (lines 927-940), FALSE when it answers without one (lines 942-943),
\* with an error response or with an exception (the catch of lines 944-979)
placeOrder(action, price, quantity, exchangeOk) ==
    placeOrderSends(action, price, quantity) /\ exchangeOk

\* the requests that reached the exchange, as a sequence of order records
OrderRecord(action, side, price, quantity, exchangeOk) ==
    IF placeOrderSends(action, price, quantity)
    THEN << [action |-> action, side |-> side, quantity |-> quantity,
             success |-> exchangeOk] >>
    ELSE << >>

\* ------------------------------------------------- executeArbitrage checks
\* the check as if only an entry still open counted
hasExistingPositionOpenOnly(ledger, ticker) ==
    ticker \in DOMAIN ledger /\ ledger[ticker].status = "open"

\* line 230-231: a position on this ticker already exists
hasExistingPosition(ledger, ticker) == ticker \in DOMAIN ledger

\* line 300
maxRetriesReached(retryCount) == retryCount >= MAX_RETRIES

\* line 311
strategyTypeOf(forceSide) == IF forceSide # "" THEN "technical" ELSE "arbitrage"

\* line 313-315
maxPositionsOf(strategyType) ==
    IF strategyType = "arbitrage" THEN MAX_ARBITRAGE_POSITIONS
    ELSE MAX_TECHNICAL_POSITIONS

\* the limit as if it were reached one position later
rateLimitReachedLate(positionsInCandle, maxPositions) == positionsInCandle > maxPositions

\* line 320
rateLimitReached(positionsInCandle, maxPositions) == positionsInCandle >= maxPositions

\* line 338-340: (yes + no + (yes + no) * fee rate) * quantity
estimatedTotalCost(yesPrice, noPrice, quantity) ==
    (yesPrice + noPrice + fee(yesPrice + noPrice)) * quantity

\* the validity check as if the fees were left out of the cost
invalidArbitrageNoFee(bothSides, yesPrice, noPrice, quantity) ==
    /\ bothSides
    /\ quantity # 0
    /\ yesPrice + noPrice >= USD

\* line 344: bothSides && totalCost / quantity >= 1.0
\* (quantity 0 gives 0 / 0 = NaN, and NaN >= 1.0 is false)
invalidArbitrage(bothSides, yesPrice, noPrice, quantity) ==
    /\ bothSides
    /\ quantity # 0
    /\ yesPrice + noPrice + fee(yesPrice + noPrice) >= USD

\* the check as if a failed lookup counted as no balance
insufficientBalanceFailClosed(balance, totalCost) == balance < totalCost

\* line 373; a failed lookup (balance -1) does not block
insufficientBalance(balance, totalCost) == balance # -1 /\ balance < totalCost

\* a leg of a position (interface Position)
Leg(quantity, price, strategy, strikePrice, nowv) ==
    [quantity |-> quantity, entryPrice |-> price, entryTime |-> nowv,
     fees |-> fee(price), strategy |-> strategy, strikePrice |-> strikePrice]

\* the entry as if the fees were left out of its cost
bothSidesPositionNoFees(yesPrice, noPrice, quantity, nowv) ==
    [yesSide |-> << Leg(quantity, yesPrice, "Arbitrage", 0, nowv) >>,
     noSide  |-> << Leg(quantity, noPrice, "Arbitrage", 0, nowv) >>,
     totalCost |-> yesPrice + noPrice,
     expectedProfit |-> USD - (yesPrice + noPrice),
     entryTime |-> nowv,
     status |-> "open"]

\* lines 425-456: the entry stored when both legs fill
bothSidesPosition(yesPrice, noPrice, quantity, nowv) ==
    LET totalCost == (yesPrice + fee(yesPrice)) + (noPrice + fee(noPrice))
    IN  [yesSide |-> << Leg(quantity, yesPrice, "Arbitrage", 0, nowv) >>,
         noSide  |-> << Leg(quantity, noPrice, "Arbitrage", 0, nowv) >>,
         totalCost |-> totalCost,
         expectedProfit |-> USD - totalCost,
         entryTime |-> nowv,
         status |-> "open"]

\* the side as if the forced side were not looked at
singleSideOfCheaper(forceSide, yesPrice, noPrice) ==
    IF yesPrice < noPrice THEN "yes" ELSE "no"

\* line 612: forced side, otherwise the cheaper side
singleSideOf(forceSide, yesPrice, noPrice) ==
    IF forceSide # "" THEN forceSide
    ELSE IF yesPrice < noPrice THEN "yes" ELSE "no"

\* lines 628-650: the entry stored when the single leg fills
singleSidePosition(side, price, quantity, forceSide, strikePrice, nowv) ==
    LET strategyName == IF forceSide # "" THEN "Technical-Directional"
                        ELSE "Arbitrage-SingleSide"
        position == Leg(quantity, price, strategyName, strikePrice, nowv)
        totalCost == price + fee(price)
    IN  [yesSide |-> IF side = "yes" THEN << position >> ELSE << >>,
         noSide  |-> IF side = "yes" THEN << >> ELSE << position >>,
         totalCost |-> totalCost,
         expectedProfit |-> USD - totalCost,
         entryTime |-> nowv,
         status |-> "open"]

\* the record of the operation that made the step
Call(op, ticker, outcome) ==
    [op |-> op, ticker |-> ticker, outcome |-> outcome, steps |-> << >>,
     args |-> << >>]

\* the record of the evaluation of a pure function: args are its arguments
CallArgs(op, ticker, outcome, args) ==
    [op |-> op, ticker |-> ticker, outcome |-> outcome, steps |-> << >>,
     args |-> args]

\* the record of a step of StrategyRunner.run: steps are the parts of run
\* the step went through, in the order it went through them
CallSteps(op, ticker, outcome, steps) ==
    [op |-> op, ticker |-> ticker, outcome |-> outcome, steps |-> steps,
     args |-> << >>]

\* --------------------------------------------------------------- the state
CurrentCandle == roundToCandle(now, candleIntervalMs)

MarketIsOpen(status) == status = "open" \/ status = "active"

\* The state after main() has constructed one StrategyRunner per configured
\* series (CONFIG.kalshi.seriesTickers).  Every constructor calls
\* setCandleInterval on the one OrderExecutor: the interval is that of the
\* runner constructed last.
InitStateFor(seriesTickers) ==
    /\ now \in StartTimes
    /\ ticks = 0
    /\ candleIntervalMs = setCandleInterval(seriesTickers[Len(seriesTickers)])
    /\ polling = [s \in { seriesTickers[i] : i \in DOMAIN seriesTickers } |-> "idle"]
    /\ cycles = [s \in { seriesTickers[i] : i \in DOMAIN seriesTickers } |-> NoCycles]
    /\ arbitragePositions = EmptyMap
    /\ positionsByCandle = EmptyMap
    /\ failedOrdersByCandle = EmptyMap
    /\ lastCandleTimestamp = 0
    /\ exhausted = [t \in Tickers |-> 0]
    /\ pendingCloses = << >>
    /\ pendingEntries = << >>
    /\ sellOrders = [l \in Tickers \X { "yes", "no" } |-> 0]

InitFor(seriesTickers) ==
    /\ InitStateFor(seriesTickers)
    /\ last = Call("init", NoTicker, "")

\* KALSHI_SERIES_TICKERS=KXBTC15M, the default
Init == InitFor(<< "KXBTC15M" >>)

\* the clock advances
Tick(d) ==
    /\ ticks < MaxTicks
    /\ now' = now + d
    /\ ticks' = ticks + 1
    /\ last' = Call("tick", NoTicker, "")
    /\ UNCHANGED << candleIntervalMs, arbitragePositions,
                    positionsByCandle, failedOrdersByCandle,
                    lastCandleTimestamp, exhausted, pollVars, callVars >>

\* ------------------------------------------------------- executeArbitrage
\* What one call does, as a record: the outcome (which return was taken),
\* the value returned (result: TRUE for a position, FALSE for null), the
\* requests sent to the exchange, the answers it asked the exchange for,
\* and the new ledger and counters.
ExecOutcome(outcome, result, orders, asked, ledger, pbc, fobc) ==
    [outcome |-> outcome, result |-> result, orders |-> orders, asked |-> asked,
     ledger |-> ledger, pbc |-> pbc, fobc |-> fobc]

\* the condition as if one filled leg were enough
oneLegFilled(yesSuccess, noSuccess) == yesSuccess \/ noSuccess

\* line 425: yesResult.success && noResult.success
bothLegsFilled(yesSuccess, noSuccess) == yesSuccess /\ noSuccess

\* the maps of the OrderExecutor, as the operations below take and return
\* them
This == [ledger |-> arbitragePositions, pbc |-> positionsByCandle,
         fobc |-> failedOrdersByCandle]

\* lines 391-711: the orders and their bookkeeping
executeOrders(this, ticker, in, asked, yesOk, noOk) ==
    LET currentCandle == CurrentCandle
        strategyType  == strategyTypeOf(in.forceSide)
        seriesTicker  == extractSeriesTicker(ticker)
        stored(position, orders, asked2) ==
            ExecOutcome("filled", TRUE, orders, asked2,
                MapSet(this.ledger, ticker, position),
                incrementCandlePositions(this.pbc, currentCandle,
                                         seriesTicker, strategyType, now),
                this.fobc)
        failed(outcome, orders, asked2) ==
            ExecOutcome(outcome, FALSE, orders, asked2, this.ledger, this.pbc,
                trackFailedOrder(this.fobc, currentCandle, ticker, now))
    IN  IF in.bothSides
        THEN LET yesResult == placeOrder("buy", in.yesPrice, in.quantity, yesOk)
                 noResult  == placeOrder("buy", in.noPrice, in.quantity, noOk)
                 orders == OrderRecord("buy", "yes", in.yesPrice, in.quantity, yesOk)
                           \o OrderRecord("buy", "no", in.noPrice, in.quantity, noOk)
                 asked2 == asked
                    \cup (IF placeOrderSends("buy", in.yesPrice, in.quantity)
                          THEN {"yesOk"} ELSE {})
                    \cup (IF placeOrderSends("buy", in.noPrice, in.quantity)
                          THEN {"noOk"} ELSE {})
             IN  IF bothLegsFilled(yesResult, noResult)
                 THEN stored(bothSidesPosition(in.yesPrice, in.noPrice,
                                               in.quantity, now), orders, asked2)
                 ELSE IF yesResult /\ ~noResult
                 THEN failed("partial_fill", orders, asked2)
                 ELSE IF ~yesResult /\ noResult
                 THEN failed("partial_fill", orders, asked2)
                 ELSE failed("failed", orders, asked2)
        ELSE LET side  == singleSideOf(in.forceSide, in.yesPrice, in.noPrice)
                 price == IF side = "yes" THEN in.yesPrice ELSE in.noPrice
                 ok    == IF side = "yes" THEN yesOk ELSE noOk
                 orderResult == placeOrder("buy", price, in.quantity, ok)
                 orders == OrderRecord("buy", side, price, in.quantity, ok)
                 asked2 == asked
                    \cup (IF placeOrderSends("buy", price, in.quantity)
                          THEN {IF side = "yes" THEN "yesOk" ELSE "noOk"} ELSE {})
             IN  IF orderResult
                 THEN stored(singleSidePosition(side, price, in.quantity,
                                 in.forceSide, in.strikePrice, now), orders, asked2)
                 ELSE failed("failed", orders, asked2)

\* lines 154-389: the preconditions, in the order of the code
executeArbitrage(this, ticker, in, ex) ==
    LET currentCandle == CurrentCandle
        reject(outcome, asked, fobc) ==
            ExecOutcome(outcome, FALSE, << >>, asked, this.ledger, this.pbc, fobc)
        retryCount == getRetryCount(this.fobc, currentCandle, ticker)
        strategyType == strategyTypeOf(in.forceSide)
        positionsInCandle ==
            getPositionsInCurrentCandle(this.pbc, currentCandle,
                extractSeriesTicker(ticker), strategyType)
        totalCost == estimatedTotalCost(in.yesPrice, in.noPrice, in.quantity)
        a1 == {"lookup"}
        a2 == IF retryCount > 0 THEN {"lookup", "retryLookup"} ELSE a1
        a3 == a2 \cup {"balance"}
    IN  IF ex.lookup = "error"
        THEN reject("market_error", a1, this.fobc)
        ELSE IF ~MarketIsOpen(ex.lookup)
        THEN reject("market_closed", a1,
                    clearFailedOnClosed(this.fobc, currentCandle, ticker))
        ELSE IF now >= CloseTime(ticker)
        THEN reject("market_expired", a1,
                    clearFailedOnClosed(this.fobc, currentCandle, ticker))
        ELSE IF hasExistingPosition(this.ledger, ticker)
        THEN reject("existing", a1, this.fobc)
        ELSE IF retryCount > 0 /\ ex.retryLookup # "error" /\ ~MarketIsOpen(ex.retryLookup)
        THEN reject("retry_closed", a2,
                    clearFailedOnClosed(this.fobc, currentCandle, ticker))
        ELSE IF retryCount > 0 /\ ex.retryLookup = "error"
        THEN reject("retry_error", a2,
                    clearFailedOnClosed(this.fobc, currentCandle, ticker))
        ELSE IF maxRetriesReached(retryCount)
        THEN reject("max_retries", a2, this.fobc)
        ELSE IF rateLimitReached(positionsInCandle, maxPositionsOf(strategyType))
        THEN reject("rate_limit", a2, this.fobc)
        ELSE IF invalidArbitrage(in.bothSides, in.yesPrice, in.noPrice, in.quantity)
        THEN reject("invalid_arb", a2, this.fobc)
        ELSE IF insufficientBalance(ex.balance, totalCost)
        THEN reject("balance", a3, this.fobc)
        ELSE executeOrders(this, ticker, in, a3, ex.yesOk, ex.noOk)

\* the answers that were not asked for are fixed, so that one behaviour of
\* the exchange is one step
DefaultAnswers == [lookup |-> "active", retryLookup |-> "active",
                   balance |-> 0, yesOk |-> FALSE, noOk |-> FALSE]

\* the answers the exchange can give, in the current state, to a call that
\* asks for the answers in asked
ExchangeMayAnswer(ticker, ex, asked) ==
    /\ ex.lookup \in MarketAnswers(ticker, now)
    /\ ex.retryLookup \in MarketAnswers(ticker, now)
    /\ \A f \in (DOMAIN ex) \ asked : ex[f] = DefaultAnswers[f]

ExecuteArbitrage(ticker, in, ex) ==
    LET r == executeArbitrage(This, ticker, in, ex)
        retries == getRetryCount(r.fobc, CurrentCandle, ticker)
    IN  /\ ExchangeMayAnswer(ticker, ex, r.asked)
        /\ arbitragePositions' = r.ledger
        /\ positionsByCandle' = r.pbc
        /\ failedOrdersByCandle' = r.fobc
        /\ exhausted' = IF r.outcome \in {"failed", "partial_fill"}
                           /\ retries >= MAX_RETRIES
                        THEN [exhausted EXCEPT ![ticker] = CurrentCandle]
                        ELSE exhausted
        /\ last' = Call("executeArbitrage", ticker, r.outcome)
        /\ UNCHANGED << now, ticks, candleIntervalMs, lastCandleTimestamp,
                        pollVars, callVars >>

\* --------------------------------------------------------- closePosition
\* the status update as if the "closed" branch were missing
statusAfterCloseNeverClosed(position) ==
    IF position.yesSide # << >> \/ position.noSide # << >> THEN "partial"
    ELSE position.status

\* lines 1322-1329: the status after the sell orders
statusAfterClose(position) ==
    IF position.yesSide = << >> /\ position.noSide = << >> THEN "closed"
    ELSE IF position.yesSide # << >> \/ position.noSide # << >> THEN "partial"
    ELSE position.status

\* lines 1257-1331 on the position found in the ledger; yesOk and noOk are
\* the exchange's answers to the sell orders
closeLegs(position, closeYes, closeNo, yesOk, noOk) ==
    LET sellYes   == closeYes /\ position.yesSide # << >>
        yesClosed == sellYes /\ placeOrder("sell", 0, position.yesSide[1].quantity, yesOk)
        p1        == IF yesClosed THEN [position EXCEPT !.yesSide = << >>] ELSE position
        sellNo    == closeNo /\ p1.noSide # << >>
        noClosed  == sellNo /\ placeOrder("sell", 0, p1.noSide[1].quantity, noOk)
        p2        == IF noClosed THEN [p1 EXCEPT !.noSide = << >>] ELSE p1
    IN  [position |-> [p2 EXCEPT !.status = statusAfterClose(p2)],
         returned |-> yesClosed \/ noClosed,
         orders   |-> (IF sellYes THEN OrderRecord("sell", "yes", 0,
                                        position.yesSide[1].quantity, yesOk)
                       ELSE << >>)
                      \o (IF sellNo THEN OrderRecord("sell", "no", 0,
                                        p1.noSide[1].quantity, noOk)
                          ELSE << >>),
         asked    |-> (IF sellYes THEN {"yesOk"} ELSE {})
                      \cup (IF sellNo THEN {"noOk"} ELSE {})]

\* closePosition(ticker, reason, {closeYes, closeNo}): the new ledger, the
\* value returned and the sell orders sent
closePosition(ledger, ticker, closeYes, closeNo, yesOk, noOk) ==
    IF ticker \notin DOMAIN ledger
    THEN [ledger |-> ledger, returned |-> FALSE, orders |-> << >>, asked |-> {}]
    ELSE LET r == closeLegs(ledger[ticker], closeYes, closeNo, yesOk, noOk)
         IN  [ledger |-> [ledger EXCEPT ![ticker] = r.position],
              returned |-> r.returned, orders |-> r.orders, asked |-> r.asked]

SellAnswers == [yesOk : BOOLEAN, noOk : BOOLEAN]

ClosePosition(ticker, closeYes, closeNo, ex) ==
    LET r == closePosition(arbitragePositions, ticker, closeYes, closeNo,
                           ex.yesOk, ex.noOk)
    IN  /\ \A f \in (DOMAIN ex) \ r.asked : ex[f] = FALSE
        /\ arbitragePositions' = r.ledger
        /\ last' = Call("closePosition", ticker,
                        IF r.returned THEN "true" ELSE "false")
        /\ UNCHANGED << now, ticks, candleIntervalMs, positionsByCandle,
                        failedOrdersByCandle, lastCandleTimestamp, exhausted,
                        pollVars, callVars >>

\* --------------------------------------------------------- shouldCloseEarly
\* getOpenPositions: the tickers of the entries with status open or partial
getOpenPositions(ledger) ==
    { t \in DOMAIN ledger : ledger[t].status = "open" \/ ledger[t].status = "partial" }

Abs(x) == IF x < 0 THEN -x ELSE x

\* the value returned by shouldCloseEarly
\* profit is << >> when the answer carries no profit, << p >> otherwise
Decision(shouldClose, shouldCloseYes, shouldCloseNo, reason, profit) ==
    [shouldClose |-> shouldClose, shouldCloseYes |-> shouldCloseYes,
     shouldCloseNo |-> shouldCloseNo, reason |-> reason, profit |-> profit]

\* the strike stop loss as if the NO leg were stopped on the same side of
\* the strike as the YES leg
strikeStopLossSameDirection(position, priceHistory) ==
    LET currentPrice == priceHistory[Len(priceHistory)]
        isTechnicalPosition ==
            \/ position.yesSide # << >> /\ position.noSide = << >>
            \/ position.noSide # << >> /\ position.yesSide = << >>
    IN  IF ~(isTechnicalPosition /\ Len(priceHistory) > 0) THEN ""
        ELSE IF /\ position.yesSide # << >>
                /\ position.yesSide[1].strikePrice # 0
                /\ position.noSide = << >>
                /\ currentPrice * 10000 <=
                      position.yesSide[1].strikePrice * (10000 + STOP_LOSS_THRESHOLD)
        THEN "strike_stop_yes"
        ELSE IF /\ position.noSide # << >>
                /\ position.noSide[1].strikePrice # 0
                /\ position.yesSide = << >>
                /\ currentPrice * 10000 <=
                      position.noSide[1].strikePrice * (10000 - STOP_LOSS_THRESHOLD)
        THEN "strike_stop_no"
        ELSE ""

\* lines 1006-1041: the strike stop loss of a single-leg position; the
\* reason, or "" when it does not apply
strikeStopLoss(position, priceHistory) ==
    LET currentPrice == priceHistory[Len(priceHistory)]
        isTechnicalPosition ==
            \/ position.yesSide # << >> /\ position.noSide = << >>
            \/ position.noSide # << >> /\ position.yesSide = << >>
    IN  IF ~(isTechnicalPosition /\ Len(priceHistory) > 0) THEN ""
        ELSE IF /\ position.yesSide # << >>
                /\ position.yesSide[1].strikePrice # 0
                /\ position.noSide = << >>
                /\ currentPrice * 10000 <=
                      position.yesSide[1].strikePrice * (10000 + STOP_LOSS_THRESHOLD)
        THEN "strike_stop_yes"
        ELSE IF /\ position.noSide # << >>
                /\ position.noSide[1].strikePrice # 0
                /\ position.yesSide = << >>
                /\ currentPrice * 10000 >=
                      position.noSide[1].strikePrice * (10000 - STOP_LOSS_THRESHOLD)
        THEN "strike_stop_no"
        ELSE ""

\* lines 1045-1050 and 1075-1090: priceMovePercent >= threshold, where
\* priceMovePercent = |last - first| / first * 100
priceMoveReaches(priceHistory, threshold) ==
    /\ Len(priceHistory) > 0
    /\ Abs(priceHistory[Len(priceHistory)] - priceHistory[1]) * 100000
         >= threshold * priceHistory[1]

\* lines 1061-1071: the profit of selling a leg at the current price
legProfit(leg, currentPrice) ==
    (currentPrice - fee(currentPrice)) * leg.quantity
    - (leg.entryPrice + leg.fees) * leg.quantity

\* the exits of one leg as if the profit target were checked before the tiers
legExitTargetFirst(leg, currentPrice, priceHistory) ==
    LET profit == legProfit(leg, currentPrice)
    IN  IF profit >= PROFIT_TARGET_USD * USD THEN "profit_target"
        ELSE IF profit > 0 /\ priceMoveReaches(priceHistory, STDEV4) THEN "stdev4"
        ELSE IF profit > 0 /\ priceMoveReaches(priceHistory, STDEV3) THEN "stdev3"
        ELSE IF profit > 0 /\ priceMoveReaches(priceHistory, STDEV2) THEN "stdev2"
        ELSE IF profit > 0 /\ priceMoveReaches(priceHistory, STDEV1) THEN "stdev1"
        ELSE ""

\* lines 1059-1110 (YES) and 1113-1163 (NO): the exits of one leg, the
\* volatility tiers before the profit target; "" when the leg stays
legExit(leg, currentPrice, priceHistory) ==
    LET profit == legProfit(leg, currentPrice)
    IN  IF Len(priceHistory) > 0 /\ profit > 0
           /\ priceMoveReaches(priceHistory, STDEV4)
        THEN "stdev4"
        ELSE IF Len(priceHistory) > 0 /\ profit > 0
                /\ priceMoveReaches(priceHistory, STDEV3)
        THEN "stdev3"
        ELSE IF Len(priceHistory) > 0 /\ profit > 0
                /\ priceMoveReaches(priceHistory, STDEV2)
        THEN "stdev2"
        ELSE IF Len(priceHistory) > 0 /\ profit > 0
                /\ priceMoveReaches(priceHistory, STDEV1)
        THEN "stdev1"
        ELSE IF profit >= PROFIT_TARGET_USD * USD
        THEN "profit_target"
        ELSE ""

\* lines 1172-1176: what selling both legs now leaves over totalCost
normalizedProfit(position, currentYesPrice, currentNoPrice) ==
    (currentYesPrice - fee(currentYesPrice))
    + (currentNoPrice - fee(currentNoPrice)) - position.totalCost

\* the normalization exit as if it did not ask for both legs
normalizedExitAnyLegs(position, currentYesPrice, currentNoPrice) ==
    /\ Abs(USD - (currentYesPrice + currentNoPrice)) < NORMALIZED_BAND
    /\ normalizedProfit(position, currentYesPrice, currentNoPrice) > 0

\* lines 1166-1187: both legs held, prices within 2 cents of $1.00 and a
\* profit in selling both
normalizedExit(position, currentYesPrice, currentNoPrice) ==
    /\ Abs(USD - (currentYesPrice + currentNoPrice)) < NORMALIZED_BAND
    /\ position.yesSide # << >>
    /\ position.noSide # << >>
    /\ normalizedProfit(position, currentYesPrice, currentNoPrice) > 0

\* the legacy stop loss as if any loss triggered it
legacyStopLossAnyLoss(leg, currentPrice) ==
    (leg.entryPrice - currentPrice) * 100 > 0

\* lines 1190-1225: lossPercent > 15 on the one leg held
legacyStopLoss(leg, currentPrice) ==
    (leg.entryPrice - currentPrice) * 100 > STOP_LOSS_PERCENT * leg.entryPrice

\* shouldCloseEarly(ticker, currentYesPrice, currentNoPrice, priceHistory);
\* an absent priceHistory is the empty sequence
shouldCloseEarly(ledger, ticker, currentYesPrice, currentNoPrice, priceHistory) ==
    IF ticker \notin DOMAIN ledger
    THEN Decision(FALSE, FALSE, FALSE, "no_position", << >>)
    ELSE
    LET position == ledger[ticker]
        strike == strikeStopLoss(position, priceHistory)
        yesExit == IF position.yesSide = << >> THEN ""
                   ELSE legExit(position.yesSide[1], currentYesPrice, priceHistory)
        noExit  == IF position.noSide = << >> THEN ""
                   ELSE legExit(position.noSide[1], currentNoPrice, priceHistory)
    IN  IF strike = "strike_stop_yes"
        THEN Decision(TRUE, TRUE, FALSE, strike, << 0 >>)
        ELSE IF strike = "strike_stop_no"
        THEN Decision(TRUE, FALSE, TRUE, strike, << 0 >>)
        ELSE IF yesExit # ""
        THEN Decision(TRUE, TRUE, TRUE, yesExit,
                      << legProfit(position.yesSide[1], currentYesPrice) >>)
        ELSE IF noExit # ""
        THEN Decision(TRUE, TRUE, TRUE, noExit,
                      << legProfit(position.noSide[1], currentNoPrice) >>)
        ELSE IF normalizedExit(position, currentYesPrice, currentNoPrice)
        THEN Decision(TRUE, TRUE, TRUE, "normalized",
                      << normalizedProfit(position, currentYesPrice, currentNoPrice) >>)
        ELSE IF /\ position.yesSide # << >> /\ position.noSide = << >>
                /\ legacyStopLoss(position.yesSide[1], currentYesPrice)
        THEN Decision(TRUE, TRUE, FALSE, "stop_loss",
                      << currentYesPrice - position.yesSide[1].entryPrice >>)
        ELSE IF /\ position.noSide # << >> /\ position.yesSide = << >>
                /\ legacyStopLoss(position.noSide[1], currentNoPrice)
        THEN Decision(TRUE, FALSE, TRUE, "stop_loss",
                      << currentNoPrice - position.noSide[1].entryPrice >>)
        ELSE Decision(FALSE, FALSE, FALSE, "hold", << >>)

\* monitorPositions(currentYesPrice, currentNoPrice, priceHistory,
\* currentTicker): every open or partial entry, of whatever market, is
\* evaluated at the given prices and closed when the evaluation says so.
\* The price history is used for the entry of currentTicker only.  yesOk
\* and noOk are the exchange's answers to the sell orders of the pass.
monitorPositions(ledger, currentYesPrice, currentNoPrice, priceHistory, currentTicker, yesOk, noOk) ==
    LET openPositions == getOpenPositions(ledger)
        decision(t) ==
            shouldCloseEarly(ledger, t, currentYesPrice, currentNoPrice,
                IF t = currentTicker THEN priceHistory ELSE << >>)
        closing == { t \in openPositions : decision(t).shouldClose }
        closed(t) == closeLegs(ledger[t], decision(t).shouldCloseYes,
                               decision(t).shouldCloseNo, yesOk, noOk)
    IN  [ledger |-> [t \in DOMAIN ledger |->
                        IF t \in closing THEN closed(t).position ELSE ledger[t]],
         closing |-> closing,
         sold    |-> { t \in closing : closed(t).returned }]

\* the prices and asset price histories an evaluation is made at
ExitPrices == { 0, 300000, 400000, 600000 }
PriceHistories ==
    { << >>, << 100000, 100000 >>, << 100000, 100100 >>, << 100000, 99900 >>,
      << 100000, 100030 >>, << 100000, 99970 >> }

\* shouldCloseEarly is called for the entry of ticker
ShouldCloseEarly(ticker, currentYesPrice, currentNoPrice, priceHistory) ==
    /\ last' = CallArgs("shouldCloseEarly", ticker,
                        shouldCloseEarly(arbitragePositions, ticker,
                            currentYesPrice, currentNoPrice, priceHistory).reason,
                        << currentYesPrice, currentNoPrice, priceHistory >>)
    /\ UNCHANGED << now, ticks, candleIntervalMs, arbitragePositions,
                    positionsByCandle, failedOrdersByCandle,
                    lastCandleTimestamp, exhausted, pollVars, callVars >>

\* ----------------------------------------------------------- calculatePnL
\* lines 1367-1383: the profit at expiry when winner wins, micro-dollars
calculatePnLPerContract(positions, ticker, winner) ==
    IF ticker \notin DOMAIN positions THEN 0
    ELSE LET arbPosition == positions[ticker]
             payout == IF winner = "yes" /\ arbPosition.yesSide # << >> THEN USD
                       ELSE IF winner = "no" /\ arbPosition.noSide # << >> THEN USD
                       ELSE 0
         IN  payout - arbPosition.totalCost

calculatePnL(positions, ticker, winner) ==
    IF ticker \notin DOMAIN positions THEN 0
    ELSE LET arbPosition == positions[ticker]
             payout ==
                IF winner = "yes" /\ arbPosition.yesSide # << >>
                THEN USD * arbPosition.yesSide[1].quantity
                ELSE IF winner = "no" /\ arbPosition.noSide # << >>
                THEN USD * arbPosition.noSide[1].quantity
                ELSE 0
         IN  payout - arbPosition.totalCost

\* calculatePnL is called for the entry of ticker
CalculatePnL(ticker, winner) ==
    /\ last' = CallArgs("calculatePnL", ticker, winner,
                        << calculatePnL(arbitragePositions, ticker, winner) >>)
    /\ UNCHANGED << now, ticks, candleIntervalMs, arbitragePositions,
                    positionsByCandle, failedOrdersByCandle,
                    lastCandleTimestamp, exhausted, pollVars, callVars >>

\* ------------------------------------------------ analyzeTechnicalSignals
\* Prices are integers; a multiplier m is kept as 20 * m (1.15 is 23) and a
\* confidence as a number of hundredths, rounded down, so that the
\* comparisons with 0.70 and 0.75 are exact.  An absent number is -1, an
\* absent strike price 0, an absent record or series the empty sequence.

\* CONFIG.trading.strikeGapPercent, in thousandths of a percent
STRIKE_GAP_PERCENT == 15
\* CONFIDENCE_THRESHOLD, in hundredths
CONFIDENCE_THRESHOLD == 70
\* the confidence a strike cross is raised to, in hundredths
STRIKE_CROSS_CONFIDENCE == 75
\* the minimum total score
MIN_TOTAL_SCORE == 8
\* the minimum minutes to expiry
MIN_TIME_LEFT == 5

Last(series) == series[Len(series)]

\* crossUp(series1, series2), lookback 2
crossUp(series1, series2) ==
    /\ ~(Len(series1) < 2 \/ Len(series2) < 2)
    /\ Last(series1) > Last(series2)
    /\ series1[Len(series1) - 1] <= series2[Len(series2) - 1]

\* crossDown(series1, series2), lookback 2
crossDown(series1, series2) ==
    /\ ~(Len(series1) < 2 \/ Len(series2) < 2)
    /\ Last(series1) < Last(series2)
    /\ series1[Len(series1) - 1] >= series2[Len(series2) - 1]

\* crossAbove(series, threshold), lookback 2, for the threshold num / den
crossAbove(series, num, den) ==
    /\ ~(Len(series) < 2)
    /\ Last(series) * den > num
    /\ series[Len(series) - 1] * den <= num

\* crossBelow(series, threshold), lookback 2, for the threshold num / den
crossBelow(series, num, den) ==
    /\ ~(Len(series) < 2)
    /\ Last(series) * den < num
    /\ series[Len(series) - 1] * den >= num

\* isAbove(series1, series2)
isAbove(series1, series2) ==
    /\ ~(Len(series1) = 0 \/ Len(series2) = 0)
    /\ Last(series1) > Last(series2)

RECURSIVE SumSeq(_)
SumSeq(series) ==
    IF series = << >> THEN 0 ELSE series[1] + SumSeq(Tail(series))

\* calculateStandardDeviation(values, 20): period^2 times the variance of
\* the last period values, taken about their first value (the variance
\* does not change with the origin); -1 for null
periodSquaredVariance(values, period) ==
    IF Len(values) < period THEN -1
    ELSE LET recentValues == SubSeq(values, Len(values) - period + 1, Len(values))
             moved == [i \in DOMAIN recentValues |-> recentValues[i] - recentValues[1]]
             squares == [i \in DOMAIN moved |-> moved[i] * moved[i]]
         IN  period * SumSeq(squares) - SumSeq(moved) * SumSeq(moved)

\* calculateStrikeDistance(currentPrice, strikePrice).direction, for a
\* positive strike price
strikeDirection(currentPrice, strikePrice) ==
    IF Abs(currentPrice - strikePrice) * 10000 < strikePrice THEN "at"
    ELSE IF currentPrice - strikePrice > 0 THEN "above"
    ELSE "below"

\* lines 128-158: strikeDistanceConfidence
strikeDistanceConfidence(currentPrice, strikePrice) ==
    LET absolute == Abs(currentPrice - strikePrice)
    IN  IF absolute * 1000 < strikePrice THEN 24
        ELSE IF absolute * 1000 < 3 * strikePrice THEN 22
        ELSE IF absolute * 1000 < 5 * strikePrice THEN 20
        ELSE IF absolute * 100 < strikePrice THEN 16
        ELSE 12

\* lines 100-122: adxMultiplier, for an ADX that is strong and directional
adxBonus(adx) ==
    IF adx.adx >= 40 THEN 26
    ELSE IF adx.adx >= 30 THEN 24
    ELSE IF adx.adx >= 25 THEN 23
    ELSE 22

\* the value analyzeTechnicalSignals returns; scores are the bullishScore
\* and bearishScore the call has reached when it returns
TechnicalDecision(action, confidence, reason, bullish, bearish, scores) ==
    [action |-> action, confidence |-> confidence, reason |-> reason,
     signals |-> [bullish |-> bullish, bearish |-> bearish],
     scores |-> scores]

\* s followed by label when cond holds
Push(s, cond, label) == IF cond THEN Append(s, label) ELSE s

\* lines 172: the time filter; -1 is an undefined timeLeftMinutes
tooCloseToExpiryBelowFour(timeLeftMinutes) ==
    timeLeftMinutes # -1 /\ timeLeftMinutes < MIN_TIME_LEFT - 1

tooCloseToExpiry(timeLeftMinutes) ==
    timeLeftMinutes # -1 /\ timeLeftMinutes < MIN_TIME_LEFT

\* lines 401-402: the signal counts do not tell a direction
conflictingSignalsEqualOnly(bullishSignals, bearishSignals, hasPriceStrikeCross) ==
    /\ Abs(Len(bullishSignals) - Len(bearishSignals)) < 1
    /\ ~hasPriceStrikeCross

conflictingSignals(bullishSignals, bearishSignals, hasPriceStrikeCross) ==
    /\ Abs(Len(bullishSignals) - Len(bearishSignals)) < 2
    /\ ~hasPriceStrikeCross

\* lines 416-422: Math.max(confidence, 0.75) for the side that crossed
strikeCrossFloorNone(confidence, crossed) == confidence

strikeCrossFloor(confidence, crossed) ==
    IF crossed /\ confidence < STRIKE_CROSS_CONFIDENCE
    THEN STRIKE_CROSS_CONFIDENCE
    ELSE confidence

\* the standard check as if the numbers of signals were not compared
standardSetupAnyCount(confidence, signals, opposite) ==
    confidence >= CONFIDENCE_THRESHOLD

\* lines 450 and 461: the standard check of one direction
standardSetup(confidence, signals, opposite) ==
    confidence >= CONFIDENCE_THRESHOLD /\ Len(signals) > Len(opposite)

\* analyzeTechnicalSignals(signals), for a positive price
analyzeTechnicalSignals(signals) ==
    LET \* step 0, lines 98-123
        adxStrong == /\ signals.adx # << >>
                     /\ signals.adx[1].adx >= 22
                     /\ Abs(signals.adx[1].plusDI - signals.adx[1].minusDI) >= 3
        adxMultiplier == IF adxStrong THEN adxBonus(signals.adx[1]) ELSE 20
        adxBullish == adxStrong /\ signals.adx[1].plusDI > signals.adx[1].minusDI
        bullish0 == Push(<< >>, adxBullish, "adx")
        bearish0 == Push(<< >>, adxStrong /\ ~adxBullish, "adx")
        \* step 1, lines 128-166
        hasStrike == signals.strikePrice # 0 /\ signals.price # 0
        strikeConfidence ==
            IF hasStrike
            THEN strikeDistanceConfidence(signals.price, signals.strikePrice)
            ELSE 20
        direction == IF hasStrike
                     THEN strikeDirection(signals.price, signals.strikePrice)
                     ELSE "none"
        bullish1 == Push(bullish0, direction = "below", "strike_distance")
        bearish1 == Push(bearish0, direction = "above", "strike_distance")
        \* step 2, lines 171-182
        tooLate == tooCloseToExpiry(signals.timeLeftMinutes)
        \* step 3, lines 187-206
        variance == periodSquaredVariance(signals.priceSeries, 20)
        lowVolatility == /\ variance # -1
                         /\ variance <= (signals.price * signals.price - 1) \div 10000
        highVolatility == /\ variance # -1 /\ ~lowVolatility
                          /\ variance > (signals.price * signals.price) \div 625
        volatilityMultiplier == IF lowVolatility THEN 14
                                ELSE IF highVolatility THEN 24 ELSE 20
        bullish3 == Push(bullish1, highVolatility, "volatility")
        bearish3 == Push(bearish1, lowVolatility, "volatility")
        \* step 4A, lines 223-248
        strikeChecked == signals.strikePrice # 0 /\ Len(signals.priceSeries) >= 2
        priceStrikeCrossUp ==
            /\ strikeChecked
            /\ crossAbove(signals.priceSeries,
                          signals.strikePrice * (100000 + STRIKE_GAP_PERCENT), 100000)
        priceStrikeCrossDown ==
            /\ strikeChecked
            /\ crossBelow(signals.priceSeries,
                          signals.strikePrice * (100000 - STRIKE_GAP_PERCENT), 100000)
        \* step 4B, lines 251-270
        macdChecked == /\ signals.macdSeries # << >>
                       /\ Len(signals.macdSeries[1].macd) >= 2
                       /\ Len(signals.macdSeries[1].signal) >= 2
        macdCrossUp == macdChecked /\ crossUp(signals.macdSeries[1].macd,
                                              signals.macdSeries[1].signal)
        macdCrossDown == macdChecked /\ crossDown(signals.macdSeries[1].macd,
                                                  signals.macdSeries[1].signal)
        macdLevel == macdChecked /\ ~macdCrossUp /\ ~macdCrossDown
                     /\ signals.macd # << >>
        macdBull == IF macdCrossUp THEN 5
                    ELSE IF macdLevel /\ signals.macd[1].hist > 0 THEN 2 ELSE 0
        macdBear == IF macdCrossUp THEN 0
                    ELSE IF macdCrossDown THEN 5
                    ELSE IF macdLevel /\ ~(signals.macd[1].hist > 0) THEN 2 ELSE 0
        \* step 4C, lines 273-296
        vwapChecked == Len(signals.priceSeries) >= 2 /\ Len(signals.vwapSeries) >= 2
        priceVwapCrossUp == vwapChecked /\ crossUp(signals.priceSeries, signals.vwapSeries)
        priceVwapCrossDown == vwapChecked /\ crossDown(signals.priceSeries, signals.vwapSeries)
        vwapLevel == vwapChecked /\ ~priceVwapCrossUp /\ ~priceVwapCrossDown
                     /\ signals.vwap # 0
        vwapBull == IF priceVwapCrossUp THEN 5
                    ELSE IF vwapLevel /\ isAbove(signals.priceSeries, signals.vwapSeries)
                    THEN 2 ELSE 0
        vwapBear == IF priceVwapCrossUp THEN 0
                    ELSE IF priceVwapCrossDown THEN 5
                    ELSE IF vwapLevel /\ ~isAbove(signals.priceSeries, signals.vwapSeries)
                    THEN 2 ELSE 0
        \* step 4D, lines 299-325
        rsiChecked == Len(signals.rsiSeries) >= 2
        rsiCross50Up == rsiChecked /\ crossAbove(signals.rsiSeries, 50, 1)
        rsiCross50Down == rsiChecked /\ crossBelow(signals.rsiSeries, 50, 1)
        rsiLevel == rsiChecked /\ ~rsiCross50Up /\ ~rsiCross50Down /\ signals.rsi # -1
        rsiBull == IF rsiCross50Up THEN 4
                   ELSE IF rsiLevel /\ signals.rsi < 30 THEN 3
                   ELSE IF rsiLevel /\ ~(signals.rsi > 70) /\ signals.rsi > 55 THEN 1
                   ELSE 0
        rsiBear == IF rsiCross50Up THEN 0
                   ELSE IF rsiCross50Down THEN 4
                   ELSE IF rsiLevel /\ ~(signals.rsi < 30) /\ signals.rsi > 70 THEN 3
                   ELSE IF rsiLevel /\ ~(signals.rsi < 30) /\ ~(signals.rsi > 55)
                           /\ signals.rsi < 45 THEN 1
                   ELSE 0
        \* step 5, lines 332-340; deltaPercent3 in hundredths of a percent
        deltaBull == IF signals.delta # << >> /\ signals.delta[1].deltaPercent3 > 50
                     THEN 2 ELSE 0
        deltaBear == IF signals.delta # << >> /\ ~(signals.delta[1].deltaPercent3 > 50)
                        /\ signals.delta[1].deltaPercent3 < -50
                     THEN 2 ELSE 0
        \* step 6, lines 347-359
        strikeCrossHappened == priceStrikeCrossUp \/ priceStrikeCrossDown
        otherCrossHappened == \/ macdCrossUp \/ macdCrossDown
                              \/ priceVwapCrossUp \/ priceVwapCrossDown
                              \/ rsiCross50Up \/ rsiCross50Down
        confirmed == strikeCrossHappened /\ otherCrossHappened
        momentumConfirmationMultiplier == IF confirmed THEN 26 ELSE 20
        bullishSignals ==
            Push(Push(Push(Push(Push(Push(bullish3,
                priceStrikeCrossUp, "strike_cross"),
                macdBull > 0, "macd"), vwapBull > 0, "vwap"), rsiBull > 0, "rsi"),
                deltaBull > 0, "delta"),
                confirmed /\ priceStrikeCrossUp, "momentum_confirmed")
        bearishSignals ==
            Push(Push(Push(Push(Push(Push(bearish3,
                priceStrikeCrossDown, "strike_cross"),
                macdBear > 0, "macd"), vwapBear > 0, "vwap"), rsiBear > 0, "rsi"),
                deltaBear > 0, "delta"),
                confirmed /\ ~priceStrikeCrossUp, "momentum_confirmed")
        bullishScore == (IF priceStrikeCrossUp THEN 8 ELSE 0)
                        + macdBull + vwapBull + rsiBull + deltaBull
        bearishScore == (IF priceStrikeCrossDown THEN 8 ELSE 0)
                        + macdBear + vwapBear + rsiBear + deltaBear
        \* step 7, lines 365-391
        totalScore == bullishScore + bearishScore
        multipliers == strikeConfidence * volatilityMultiplier * adxMultiplier
                       * momentumConfirmationMultiplier
        confidenceOf(score) ==
            LET c == (score * multipliers * 100) \div (totalScore * 160000)
            IN  IF c < 100 THEN c ELSE 100
        bullishConfidence == confidenceOf(bullishScore)
        bearishConfidence == confidenceOf(bearishScore)
        Max(a, b) == IF a > b THEN a ELSE b
        \* lines 395-421
        conflicting == conflictingSignals(bullishSignals, bearishSignals,
                                          strikeCrossHappened)
        bullishFinal == strikeCrossFloor(bullishConfidence, priceStrikeCrossUp)
        bearishFinal == strikeCrossFloor(bearishConfidence,
                                         ~priceStrikeCrossUp /\ priceStrikeCrossDown)
        scores == [bullish |-> bullishScore, bearish |-> bearishScore]
    IN  IF tooLate
        THEN TechnicalDecision("NO_TRADE", 0, "time", bullish1, bearish1,
                               [bullish |-> 0, bearish |-> 0])
        ELSE IF totalScore < MIN_TOTAL_SCORE
        THEN TechnicalDecision("NO_TRADE", 0, "score", bullishSignals,
                               bearishSignals, scores)
        ELSE IF conflicting
        THEN TechnicalDecision("NO_TRADE", Max(bullishConfidence, bearishConfidence),
                               "conflicting", bullishSignals, bearishSignals, scores)
        \* lines 424-447
        ELSE IF priceStrikeCrossUp /\ bullishFinal >= CONFIDENCE_THRESHOLD
        THEN TechnicalDecision("BUY_YES", bullishFinal, "strike_cross",
                               bullishSignals, bearishSignals, scores)
        ELSE IF priceStrikeCrossDown /\ bearishFinal >= CONFIDENCE_THRESHOLD
        THEN TechnicalDecision("BUY_NO", bearishFinal, "strike_cross",
                               bullishSignals, bearishSignals, scores)
        \* lines 450-472
        ELSE IF standardSetup(bullishFinal, bullishSignals, bearishSignals)
        THEN TechnicalDecision("BUY_YES", bullishFinal, "bullish",
                               bullishSignals, bearishSignals, scores)
        ELSE IF standardSetup(bearishFinal, bearishSignals, bullishSignals)
        THEN TechnicalDecision("BUY_NO", bearishFinal, "bearish",
                               bullishSignals, bearishSignals, scores)
        ELSE TechnicalDecision("NO_TRADE", Max(bullishFinal, bearishFinal),
                               "threshold", bullishSignals, bearishSignals, scores)

\* ------------------------------------------------------------ the cleanups
\* the age test as if positions were stale after an hour only
isStaleAfterAnHour(position, nowv) ==
    nowv - position.entryTime > 60

\* autoCleanupPositions, lines 1578-1583: age > maxAgeMs
isStale(position, nowv) ==
    nowv - position.entryTime > AUTO_CLEAR_MINUTES

\* autoCleanupPositions, line 1556: a new candle has started since the
\* last call
newCandleStarted(lastCandle, nowv, interval) ==
    lastCandle # 0 /\ roundToCandle(nowv, interval) # lastCandle

\* autoCleanupPositions as if closed positions were left in the ledger
autoCleanupPositionsStaleOnly(ledger, lastCandle, nowv, interval) ==
    LET afterNewCandle ==
            IF newCandleStarted(lastCandle, nowv, interval)
            THEN EmptyMap ELSE ledger
        kept == { t \in DOMAIN afterNewCandle : ~isStale(afterNewCandle[t], nowv) }
    IN  [t \in kept |-> afterNewCandle[t]]

\* autoCleanupPositions: the ledger after the call
autoCleanupPositions(ledger, lastCandle, nowv, interval) ==
    LET afterNewCandle ==
            IF newCandleStarted(lastCandle, nowv, interval)
            THEN EmptyMap ELSE ledger
        kept == { t \in DOMAIN afterNewCandle :
                    /\ ~isStale(afterNewCandle[t], nowv)
                    /\ ~(afterNewCandle[t].status = "closed") }
    IN  [t \in kept |-> afterNewCandle[t]]

\* autoCleanupPositions is called.  The outcome tells whether the ledger
\* was cleared for a new candle.
AutoCleanupPositions ==
    /\ arbitragePositions' =
            autoCleanupPositions(arbitragePositions, lastCandleTimestamp, now,
                                 candleIntervalMs)
    /\ lastCandleTimestamp' = CurrentCandle
    /\ last' = Call("autoCleanupPositions", NoTicker,
                    IF newCandleStarted(lastCandleTimestamp, now, candleIntervalMs)
                       /\ arbitragePositions # EmptyMap
                    THEN "new_candle" ELSE "")
    /\ UNCHANGED << now, ticks, candleIntervalMs, positionsByCandle,
                    failedOrdersByCandle, exhausted, pollVars, callVars >>

\* clearPosition
clearPosition(ledger, ticker) == MapDelete(ledger, ticker)

\* clearFailedOrderTracking: the ticker is deleted from every candle's map
clearFailedOrderTracking(fobc, ticker) ==
    [c \in DOMAIN fobc |-> MapDelete(fobc[c], ticker)]

\* clearStaleFailedOrders: in the current candle's map only the current
\* market's ticker is kept
clearStaleFailedOrders(fobc, currentCandle, currentMarketTicker) ==
    IF currentCandle \in DOMAIN fobc
    THEN [fobc EXCEPT ![currentCandle] =
            [t \in (DOMAIN @) \cap {currentMarketTicker} |-> @[t]]]
    ELSE fobc

\* StrategyRunner.cleanupExpiredPositions(currentMarketTicker): the tickers
\* it clears
expiredPositions(ledger, currentMarketTicker, nowv) ==
    { t \in getOpenPositions(ledger) :
        LET ageMinutes == nowv - ledger[t].entryTime
            isDifferentTicker == t # currentMarketTicker
            isVeryOld == ageMinutes > 60
            isOldAndDifferent == isDifferentTicker /\ ageMinutes > 30
        IN  isVeryOld \/ isOldAndDifferent }

\* StrategyRunner.run, lines 53-57: autoCleanupPositions, then
\* cleanupExpiredPositions(market.ticker), with no suspension in between
runCleanup(ledger, fobc, lastCandle, nowv, interval, currentMarketTicker) ==
    LET ledger1 == autoCleanupPositions(ledger, lastCandle, nowv, interval)
        expired == expiredPositions(ledger1, currentMarketTicker, nowv)
        ledger2 == [t \in (DOMAIN ledger1) \ expired |-> ledger1[t]]
        fobc1   == [c \in DOMAIN fobc |->
                      [t \in (DOMAIN fobc[c]) \ expired |-> fobc[c][t]]]
    IN  [ledger |-> ledger2,
         fobc   |-> clearStaleFailedOrders(fobc1, roundToCandle(nowv, interval),
                                           currentMarketTicker)]

\* the markets the exchange lists for a series: a market past its close
\* time is no longer reported open or active
MarketsOf(seriesTicker, nowv) ==
    { t \in Tickers : extractSeriesTicker(t) = seriesTicker /\ nowv < CloseTime(t) }

\* the element of a non-empty set of markets with the earliest close time
EarliestClose(markets) ==
    CHOOSE t \in markets : \A u \in markets : CloseTime(t) <= CloseTime(u)

\* pickLatestActiveMarket: the open market closing first, otherwise the
\* upcoming market closing first, otherwise null (NoTicker)
pickLatestActiveMarket(markets, nowv) ==
    LET active == { t \in markets : OpenTime(t) <= nowv /\ nowv < CloseTime(t) }
        upcoming == { t \in markets : nowv < CloseTime(t) }
    IN  IF active # {} THEN EarliestClose(active)
        ELSE IF upcoming # {} THEN EarliestClose(upcoming)
        ELSE NoTicker

\* fetchLatestBitcoinMarket(seriesTicker)
fetchLatestBitcoinMarket(seriesTicker, nowv) ==
    pickLatestActiveMarket(MarketsOf(seriesTicker, nowv), nowv)

\* StrategyRunner.run, lines 47-57, once the market lookup has answered
\* with a market: the cleanup of the cycle of the runner of seriesTicker
CleanupStep(seriesTicker) ==
    LET currentMarketTicker == fetchLatestBitcoinMarket(seriesTicker, now)
        r == runCleanup(arbitragePositions, failedOrdersByCandle,
                        lastCandleTimestamp, now, candleIntervalMs,
                        currentMarketTicker)
    IN  /\ currentMarketTicker # NoTicker
        /\ arbitragePositions' = r.ledger
        /\ failedOrdersByCandle' = r.fobc
        /\ lastCandleTimestamp' = CurrentCandle
        /\ last' = CallSteps("runCleanup", currentMarketTicker, "",
                             << "cleanup" >>)
        /\ UNCHANGED << now, ticks, candleIntervalMs, positionsByCandle,
                        exhausted, callVars >>

RunCleanup(seriesTicker) == CleanupStep(seriesTicker) /\ UNCHANGED pollVars

\* ----------------------------------------------- the trading part of a cycle
\* The market data of one cycle: the best asks of the runner's market, the
\* closes of the asset's candles (the first and the last are all the code
\* reads) and whether the order book has the liquidity and depth asked for.
CycleData ==
    { \* an arbitrage: $0.60 for both sides
      [yesAsk |-> 300000, noAsk |-> 300000, closes |-> << 100000, 100000 >>,
       liquid |-> TRUE],
      [yesAsk |-> 300000, noAsk |-> 300000, closes |-> << 100000, 100000 >>,
       liquid |-> FALSE],
      \* prices within 2 cents of $1.00
      [yesAsk |-> 550000, noAsk |-> 440000, closes |-> << 100000, 100000 >>,
       liquid |-> TRUE],
      \* the asset has moved by 0.1 %
      [yesAsk |-> 600000, noAsk |-> 450000, closes |-> << 100000, 100100 >>,
       liquid |-> TRUE] }

\* runArbitrageStrategy: an arbitrage signal is raised
runArbitrageStrategy(yesPrice, noPrice) ==
    /\ yesPrice > 20000 /\ yesPrice < 980000
    /\ noPrice > 20000 /\ noPrice < 980000
    /\ Abs(USD - (yesPrice + noPrice)) > 20000
    \* netProfitCents > 0.5
    /\ Abs(USD - (yesPrice + noPrice)) - (fee(yesPrice) + fee(noPrice)) > 5000
    /\ yesPrice + noPrice < USD

\* makeFinalDecision: TRUE for a trade, FALSE for NO_TRADE
makeFinalDecision(signal, timeLeftMin) == ~(timeLeftMin < 2) /\ signal

\* run, lines 262-345: the decision and the preconditions of an entry in
\* arbitrage mode
entersArbitrage(market, data, nowv) ==
    LET timeLeftMin == IF CloseTime(market) > nowv THEN CloseTime(market) - nowv
                       ELSE 0
    IN  /\ makeFinalDecision(runArbitrageStrategy(data.yesAsk, data.noAsk),
                             timeLeftMin)
        /\ ~(timeLeftMin < MIN_TIME_TO_EXPIRY_MIN)
        /\ ~(nowv - OpenTime(market) < 1)
        /\ data.liquid
        /\ data.yesAsk > 10000 /\ data.yesAsk < 990000
        /\ data.noAsk > 10000 /\ data.noAsk < 990000
        /\ data.yesAsk + data.noAsk + fee(data.yesAsk + data.noAsk) < USD

\* the arguments of the executeArbitrage call of an arbitrage cycle
arbitrageArgs(data) ==
    [yesPrice |-> data.yesAsk, noPrice |-> data.noAsk, quantity |-> 1,
     bothSides |-> TRUE, forceSide |-> "", strikePrice |-> 0]

\* run as if the entry were made before the positions are monitored
runTradeEntryFirst(this, market, data, sell, ex) ==
    LET enters == entersArbitrage(market, data, now)
        r == IF enters THEN executeArbitrage(this, market, arbitrageArgs(data), ex)
             ELSE ExecOutcome("no_trade", FALSE, << >>, {}, this.ledger,
                              this.pbc, this.fobc)
        m == monitorPositions(r.ledger, data.yesAsk, data.noAsk, data.closes,
                              market, sell.yesOk, sell.noOk)
    IN  [closing |-> m.closing,
         sold    |-> m.sold,
         enters  |-> enters,
         steps   |-> << "fetch", "decision" >>
                     \o (IF enters THEN << "entry" >> ELSE << >>)
                     \o << "monitor" >>,
         exec    |-> [r EXCEPT !.ledger = m.ledger]]

\* run, lines 59-395, once the market data has arrived (lines 62-112):
\* monitorPositions at the asks of the runner's market (line 116), then the
\* decision (lines 126-196), then the entry (lines 262-395)
runTrade(this, market, data, sell, ex) ==
    LET m == monitorPositions(this.ledger, data.yesAsk, data.noAsk, data.closes,
                              market, sell.yesOk, sell.noOk)
        this1 == [this EXCEPT !.ledger = m.ledger]
        enters == entersArbitrage(market, data, now)
        r == executeArbitrage(this1, market, arbitrageArgs(data), ex)
    IN  [closing |-> m.closing,
         sold    |-> m.sold,
         enters  |-> enters,
         steps   |-> << "fetch", "monitor", "decision" >>
                     \o (IF enters THEN << "entry" >> ELSE << >>),
         exec    |-> IF enters THEN r
                     ELSE ExecOutcome("no_trade", FALSE, << >>, {}, this1.ledger,
                                      this1.pbc, this1.fobc)]

ClearPosition(ticker) ==
    /\ arbitragePositions' = clearPosition(arbitragePositions, ticker)
    /\ last' = Call("clearPosition", ticker,
                    IF ticker \in DOMAIN arbitragePositions THEN "true" ELSE "false")
    /\ UNCHANGED << now, ticks, candleIntervalMs, positionsByCandle,
                    failedOrdersByCandle, lastCandleTimestamp, exhausted,
                    pollVars, callVars >>

\* the retry cap was hit in the current candle by the call that returned r
exhaustedAfter(r, ticker) ==
    IF r.outcome \in {"failed", "partial_fill"}
       /\ getRetryCount(r.fobc, CurrentCandle, ticker) >= MAX_RETRIES
    THEN [exhausted EXCEPT ![ticker] = CurrentCandle]
    ELSE exhausted

\* StrategyRunner.run, lines 59-395, once the market data has arrived, for
\* the runner of seriesTicker.  The awaits inside monitorPositions and
\* executeArbitrage are not interleaved with other runs.
\* The answers that are not asked for (no position to sell, no entry) are
\* fixed, so that one behaviour of the exchange is one step.
TradeStep(seriesTicker) ==
    /\ \E market \in { fetchLatestBitcoinMarket(seriesTicker, now) } \ { NoTicker },
          data \in CycleData :
        \E closing \in { monitorPositions(arbitragePositions, data.yesAsk,
                            data.noAsk, data.closes, market, FALSE, FALSE).closing },
           enters \in { entersArbitrage(market, data, now) } :
            \E sell \in SellAnswers :
                /\ closing = {} => (~sell.yesOk /\ ~sell.noOk)
                /\ \E ex \in ExchangeAnswers :
                    /\ ~enters => ex = DefaultAnswers
                    /\ \E rt \in { runTrade(This, market, data, sell, ex) } :
                       \E r \in { rt.exec } :
                        /\ ExchangeMayAnswer(market, ex, r.asked)
                        /\ arbitragePositions' = r.ledger
                        /\ positionsByCandle' = r.pbc
                        /\ failedOrdersByCandle' = r.fobc
                        /\ exhausted' = exhaustedAfter(r, market)
                        /\ last' = CallSteps("run", market, r.outcome, rt.steps)
    /\ UNCHANGED << now, ticks, candleIntervalMs, lastCandleTimestamp, callVars >>

RunTrade(seriesTicker) == TradeStep(seriesTicker) /\ UNCHANGED pollVars

\* ------------------------------------------------------------ startPolling
\* the runs of one runner that may wait for the exchange at the same time
MaxInFlight == 2

InFlight(seriesTicker) ==
    cycles[seriesTicker].fetchMarket + cycles[seriesTicker].fetchData

\* a run of the runner leaves the stage it waits in; the run awaited by
\* startPolling, when it completes, is followed by setInterval
Advance(seriesTicker, from, to) ==
    /\ cycles[seriesTicker][from] > 0
    /\ cycles' = [cycles EXCEPT ![seriesTicker] =
                    IF to = "done" THEN [@ EXCEPT ![from] = @ - 1]
                    ELSE [@ EXCEPT ![from] = @ - 1, ![to] = @ + 1]]
    /\ polling' = IF to = "done" /\ polling[seriesTicker] = "first"
                  THEN [polling EXCEPT ![seriesTicker] = "timer"]
                  ELSE polling

\* startPolling, line 543: the first run starts and waits for the market
StartPolling(seriesTicker) ==
    /\ polling[seriesTicker] = "idle"
    /\ polling' = [polling EXCEPT ![seriesTicker] = "first"]
    /\ cycles' = [cycles EXCEPT ![seriesTicker].fetchMarket = @ + 1]
    /\ last' = Call("startPolling", NoTicker, "")
    /\ UNCHANGED << now, ticks, candleIntervalMs, arbitragePositions,
                    positionsByCandle, failedOrdersByCandle,
                    lastCandleTimestamp, exhausted, callVars >>

\* startPolling, lines 544-546: the interval timer fires and its callback
\* calls run, whatever the runs still waiting
TimerFires(seriesTicker) ==
    /\ polling[seriesTicker] = "timer"
    /\ InFlight(seriesTicker) < MaxInFlight
    /\ cycles' = [cycles EXCEPT ![seriesTicker].fetchMarket = @ + 1]
    /\ last' = Call("timer", NoTicker, "")
    /\ UNCHANGED << now, ticks, candleIntervalMs, arbitragePositions,
                    positionsByCandle, failedOrdersByCandle,
                    lastCandleTimestamp, exhausted, polling, callVars >>

\* run, lines 47-51, and fetchLatestBitcoinMarket, lines 48-50: the
\* exchange lists no market of the series and the run returns
MarketMissing(seriesTicker) ==
    /\ Advance(seriesTicker, "fetchMarket", "done")
    /\ last' = Call("runNoMarket", NoTicker, "")
    /\ UNCHANGED << now, ticks, candleIntervalMs, arbitragePositions,
                    positionsByCandle, failedOrdersByCandle,
                    lastCandleTimestamp, exhausted, callVars >>

\* run, lines 47-63: the market lookup answers, the cleanups are made and
\* the run waits for the market data
MarketFetched(seriesTicker) ==
    /\ CleanupStep(seriesTicker)
    /\ Advance(seriesTicker, "fetchMarket", "fetchData")

\* run, lines 59-395: the market data arrive and the run completes
DataFetched(seriesTicker) ==
    /\ TradeStep(seriesTicker)
    /\ Advance(seriesTicker, "fetchData", "done")

\* The operations of the OrderExecutor called one after another on the
\* market of one 15-minute series, and the cleanup of that series' runner.
Next ==
    \/ \E d \in TickSteps : Tick(d)
    \/ \E in \in ExecInputs, ex \in ExchangeAnswers : ExecuteArbitrage(T1, in, ex)
    \/ \E closeYes \in BOOLEAN, closeNo \in BOOLEAN, ex \in SellAnswers :
            ClosePosition(T1, closeYes, closeNo, ex)
    \/ RunCleanup("KXBTC15M")
    \/ ClearPosition(T1)

Spec == Init /\ [][Next]_vars

\* The exit evaluation of the entries executeArbitrage stores: entries of
\* one and of a hundred contracts, with one and with both legs, evaluated at
\* the prices of ExitPrices and the histories of PriceHistories.
ExitInputs ==
    ExecInputs \cup
    { [yesPrice |-> 300000, noPrice |-> 300000, quantity |-> 100,
       bothSides |-> TRUE,  forceSide |-> "",    strikePrice |-> 0] }

NextExit ==
    \/ \E in \in ExitInputs, ex \in ExchangeAnswers :
            ExecuteArbitrage(T1, in, ex) /\ last'.outcome = "filled"
    \/ \E currentYesPrice \in ExitPrices, currentNoPrice \in ExitPrices,
          priceHistory \in PriceHistories :
            ShouldCloseEarly(T1, currentYesPrice, currentNoPrice, priceHistory)
    \/ \E winner \in { "yes", "no" } : CalculatePnL(T1, winner)
    \/ ClearPosition(T1)

SpecExit == Init /\ [][NextExit]_vars

\* The automatic cleanup of the entries executeArbitrage stores, some of
\* them closed by closePosition, within a candle, after its end and after
\* the configured age.
CleanupTickSteps == { 10, 20 }

NextCleanup ==
    \/ \E d \in CleanupTickSteps : Tick(d)
    \/ \E in \in ExecInputs, ex \in ExchangeAnswers :
            ExecuteArbitrage(T1, in, ex) /\ last'.outcome = "filled"
    \/ \E closeYes \in BOOLEAN, closeNo \in BOOLEAN, ex \in SellAnswers :
            ClosePosition(T1, closeYes, closeNo, ex)
    \/ AutoCleanupPositions

SpecCleanup == Init /\ [][NextCleanup]_vars

\* The technical decision on the signal bundles a cycle can hand to
\* analyzeTechnicalSignals (strategyRunner.ts lines 136-172).  Prices are
\* in dollars, RSI and ADX in points, deltaPercent3 in hundredths of a
\* percent; -1 and 0 stand for an undefined number, << >> for an undefined
\* object or series.
Flat == [i \in 1..19 |-> 10000]
Swinging == [i \in 1..18 |-> IF i % 2 = 1 THEN 9950 ELSE 10050]

PriceSeriesSet ==
    { << >>, << 10000, 10002 >>, << 10000, 9998 >>, << 10000, 10001 >>,
      << 9800, 9890 >>, Flat \o << 10002 >>, Swinging \o << 10050, 9950 >>,
      Swinging \o << 9950, 10050 >> }

AdxSet ==
    { << >>, << [adx |-> 10, plusDI |-> 30, minusDI |-> 10] >>,
      << [adx |-> 30, plusDI |-> 20, minusDI |-> 19] >>,
      << [adx |-> 45, plusDI |-> 30, minusDI |-> 10] >>,
      << [adx |-> 23, plusDI |-> 10, minusDI |-> 30] >> }

\* macdSeries and macd are both derived from computeMacd
MacdSet ==
    { [macdSeries |-> << >>, macd |-> << >>],
      [macdSeries |-> << [macd |-> << 0, 2 >>, signal |-> << 1, 1 >>] >>,
       macd |-> << [hist |-> 1] >>],
      [macdSeries |-> << [macd |-> << 2, 0 >>, signal |-> << 1, 1 >>] >>,
       macd |-> << [hist |-> -1] >>],
      [macdSeries |-> << [macd |-> << 2, 2 >>, signal |-> << 1, 1 >>] >>,
       macd |-> << [hist |-> 1] >>],
      [macdSeries |-> << [macd |-> << 0, 0 >>, signal |-> << 1, 1 >>] >>,
       macd |-> << [hist |-> -1] >>] }

VwapSet ==
    { [vwapSeries |-> << >>, vwap |-> 0],
      [vwapSeries |-> << 10001, 10001 >>, vwap |-> 0],
      [vwapSeries |-> << 9999, 9999 >>, vwap |-> 9999],
      [vwapSeries |-> << 10100, 10100 >>, vwap |-> 10100] }

RsiSeriesSet ==
    { << >>, << 48, 52 >>, << 52, 48 >>, << 25, 25 >>, << 75, 75 >>,
      << 60, 60 >>, << 40, 40 >> }

DeltaSet == { << >>, << [deltaPercent3 |-> 80] >>, << [deltaPercent3 |-> -80] >> }

StrikePrices == { 0, 10000 }

TimesLeft == { -1, 4, 5 }

SignalBundle(priceSeries, adx, macd, vwap, rsiSeries, delta, strikePrice, timeLeftMinutes) ==
    [rsi |-> IF rsiSeries = << >> THEN -1 ELSE Last(rsiSeries),
     rsiSeries |-> rsiSeries,
     macd |-> macd.macd, macdSeries |-> macd.macdSeries,
     vwap |-> vwap.vwap, vwapSeries |-> vwap.vwapSeries,
     delta |-> delta,
     price |-> IF priceSeries = << >> THEN 0 ELSE Last(priceSeries),
     priceSeries |-> priceSeries,
     strikePrice |-> strikePrice, timeLeftMinutes |-> timeLeftMinutes,
     adx |-> adx]

SignalBundles ==
    { SignalBundle(b[1], b[2], b[3], b[4], b[5], b[6], b[7], b[8]) :
        b \in PriceSeriesSet \X AdxSet \X MacdSet \X VwapSet \X RsiSeriesSet
               \X DeltaSet \X StrikePrices \X TimesLeft }

\* the runner has gathered a signal bundle
InitTechnical ==
    /\ InitStateFor(<< "KXBTC15M" >>)
    /\ last \in { CallArgs("signals", NoTicker, "", << b >>) : b \in SignalBundles }

\* analyzeTechnicalSignals on the bundle gathered: it reads its argument
\* and the configured gap, and writes nothing but its result
AnalyzeTechnicalSignals ==
    /\ last.op \in { "signals", "analyzeTechnicalSignals" }
    /\ \E technicalDecision \in { analyzeTechnicalSignals(last.args[1]) } :
            last' = CallArgs("analyzeTechnicalSignals", NoTicker,
                             technicalDecision.action,
                             << last.args[1], technicalDecision >>)
    /\ UNCHANGED << now, ticks, candleIntervalMs, arbitragePositions,
                    positionsByCandle, failedOrdersByCandle,
                    lastCandleTimestamp, exhausted, pollVars, callVars >>

NextTechnical == AnalyzeTechnicalSignals

SpecTechnical == InitTechnical /\ [][NextTechnical]_vars

\* The polling loop of the runner of the default series, within the life
\* of one market.
NextPoll ==
    \/ StartPolling("KXBTC15M")
    \/ TimerFires("KXBTC15M")
    \/ MarketMissing("KXBTC15M")
    \/ MarketFetched("KXBTC15M")
    \/ DataFetched("KXBTC15M")

SpecPoll == Init /\ [][NextPoll]_vars

\* KALSHI_SERIES_TICKERS=KXBTC15M,KXETHD: the cycles of two assets, each
\* asset's cycles one after another.
InitAssets == InitFor(<< "KXBTC15M", "KXETHD" >>)

\* the failed attempts followed per market
MaxAssetRetries == 1

RetriesWithin(fobc, bound) ==
    \A c \in DOMAIN fobc : \A t \in DOMAIN fobc[c] : fobc[c][t] <= bound

NextAssets ==
    \/ RunCleanup("KXBTC15M")
    \/ RunCleanup("KXETHD")
    \/ RunTrade("KXBTC15M") /\ RetriesWithin(failedOrdersByCandle', MaxAssetRetries)
    \/ RunTrade("KXETHD") /\ RetriesWithin(failedOrdersByCandle', MaxAssetRetries)

SpecAssets == InitAssets /\ [][NextAssets]_vars

\* KALSHI_SERIES_TICKERS=KXBTC15M,KXETHD: executeArbitrage called for the
\* markets of a 15-minute and of an hourly series, one contract at a time,
\* before and after the close of the 15-minute market; the failed attempts
\* on the hourly market are followed up to MaxAssetRetries.
MixedInputs == { in \in ExecInputs : in.quantity = 1 }

NextMixed ==
    \/ \E d \in CleanupTickSteps : Tick(d)
    \/ \E in \in MixedInputs, ex \in ExchangeAnswers : ExecuteArbitrage(T1, in, ex)
    \/ \E in \in MixedInputs, ex \in ExchangeAnswers :
            /\ ExecuteArbitrage(TE, in, ex)
            /\ getRetryCount(failedOrdersByCandle', CurrentCandle, TE) <= MaxAssetRetries

SpecMixed == InitAssets /\ [][NextMixed]_vars

\* ------------------------------------------------------ clearAllPositions
\* lines 1486-1490: the ledger after the call
clearAllPositions(ledger) == EmptyMap

ClearAllPositions ==
    /\ arbitragePositions' = clearAllPositions(arbitragePositions)
    /\ last' = Call("clearAllPositions", NoTicker, "")
    /\ UNCHANGED << now, ticks, candleIntervalMs, positionsByCandle,
                    failedOrdersByCandle, lastCandleTimestamp, exhausted,
                    pollVars, callVars >>

\* The entries of one market opened, closed, cleared and cleaned up within
\* a period bucket and across its end.
NextCounters ==
    \/ \E d \in TickSteps : Tick(d)
    \/ \E in \in MixedInputs, ex \in ExchangeAnswers : ExecuteArbitrage(T1, in, ex)
    \/ \E closeYes \in BOOLEAN, closeNo \in BOOLEAN, ex \in SellAnswers :
            ClosePosition(T1, closeYes, closeNo, ex)
    \/ AutoCleanupPositions
    \/ ClearPosition(T1)
    \/ ClearAllPositions

SpecCounters == Init /\ [][NextCounters]_vars

\* ------------------------------------------------ the cycles keep running
\* KALSHI_SERIES_TICKERS=KXBTC15M,KXETHD.  Entries are stored and closed
\* while the clock can still advance past their auto-clear age; the clock
\* advances, and the timers of startPolling keep starting the runs of both
\* runners: the cleanup of a run takes place whenever the exchange lists a
\* market of the runner's series.
StoreEntry(ticker) ==
    /\ ticks < MaxTicks
    /\ \E in \in MixedInputs, ex \in ExchangeAnswers :
            /\ in.bothSides \/ in.forceSide = "no"
            /\ ExecuteArbitrage(ticker, in, ex)
            /\ last'.outcome = "filled"

NextLive ==
    \/ \E d \in TickSteps : Tick(d)
    \/ StoreEntry(T1)
    \/ StoreEntry(TE)
    \/ \E ex \in SellAnswers : ClosePosition(T1, TRUE, TRUE, ex)
    \/ RunCleanup("KXBTC15M")
    \/ RunCleanup("KXETHD")

SpecLive ==
    /\ InitAssets
    /\ [][NextLive]_vars
    /\ WF_vars(\E d \in TickSteps : Tick(d))
    /\ WF_vars(RunCleanup("KXBTC15M"))
    /\ WF_vars(RunCleanup("KXETHD"))

\* ------------------------------------------------- calls suspended at awaits
\* the calls of one kind that may wait for the exchange at the same time
MaxPending == 2

\* s without its i-th element
RemoveAt(s, i) == SubSeq(s, 1, i - 1) \o SubSeq(s, i + 1, Len(s))

\* a closePosition call waiting for the answer to the sell order of the
\* leg stage; quantity is the leg's quantity read before the await
CloseCall(ticker, closeYes, closeNo, stage, quantity) ==
    [ticker |-> ticker, closeYes |-> closeYes, closeNo |-> closeNo,
     stage |-> stage, quantity |-> quantity]

\* closePosition, lines 1260 and 1290: the leg whose sell order is sent
\* next, YES before NO; "done" when no requested leg is present
nextSell(position, closeYes, closeNo) ==
    IF closeYes /\ position.yesSide # << >> THEN "yes"
    ELSE IF closeNo /\ position.noSide # << >> THEN "no"
    ELSE "done"

legOf(position, side) == IF side = "yes" THEN position.yesSide ELSE position.noSide

\* monitorPositions, lines 1410-1430, of the cycle of any runner: the
\* evaluation of an open position says close, and closePosition runs up to
\* its first sell order (lines 1233-1268 or 1290-1298)
MonitorCloses(ticker, currentYesPrice, currentNoPrice, priceHistory) ==
    /\ Len(pendingCloses) < MaxPending
    /\ ticker \in getOpenPositions(arbitragePositions)
    /\ \E d \in { shouldCloseEarly(arbitragePositions, ticker, currentYesPrice,
                                    currentNoPrice, priceHistory) } :
        /\ d.shouldClose
        /\ \E stage \in { nextSell(arbitragePositions[ticker], d.shouldCloseYes,
                                    d.shouldCloseNo) } \ { "done" } :
            /\ pendingCloses' = Append(pendingCloses,
                    CloseCall(ticker, d.shouldCloseYes, d.shouldCloseNo, stage,
                              legOf(arbitragePositions[ticker], stage)[1].quantity))
            /\ last' = Call("monitorCloses", ticker, stage)
    /\ UNCHANGED << now, ticks, candleIntervalMs, arbitragePositions,
                    positionsByCandle, failedOrdersByCandle,
                    lastCandleTimestamp, exhausted, pollVars, pendingEntries,
                    sellOrders >>

\* closePosition, lines 1268-1331, from the answer to a sell order: the leg
\* is removed when the order was placed; then the NO leg's sell order is
\* sent when it is still to come, or the status is set and the call
\* returns
SellAnswered(i, exchangeOk) ==
    LET call == pendingCloses[i]
        position == arbitragePositions[call.ticker]
        closed == placeOrder("sell", 0, call.quantity, exchangeOk)
        p1 == IF ~closed THEN position
              ELSE IF call.stage = "yes" THEN [position EXCEPT !.yesSide = << >>]
              ELSE [position EXCEPT !.noSide = << >>]
        next == IF call.stage = "yes" THEN nextSell(p1, FALSE, call.closeNo)
                ELSE "done"
    IN  /\ call.ticker \in DOMAIN arbitragePositions
        /\ sellOrders' = IF closed
                         THEN [sellOrders EXCEPT ![<< call.ticker, call.stage >>] = @ + 1]
                         ELSE sellOrders
        /\ IF next = "no"
           THEN /\ arbitragePositions' = [arbitragePositions EXCEPT ![call.ticker] = p1]
                /\ pendingCloses' = [pendingCloses EXCEPT ![i] =
                        CloseCall(call.ticker, call.closeYes, call.closeNo, "no",
                                  p1.noSide[1].quantity)]
           ELSE /\ arbitragePositions' = [arbitragePositions EXCEPT ![call.ticker] =
                        [p1 EXCEPT !.status = statusAfterClose(p1)]]
                /\ pendingCloses' = RemoveAt(pendingCloses, i)
        /\ last' = Call("sellAnswered", call.ticker,
                        IF closed THEN call.stage ELSE "")
        /\ UNCHANGED << now, ticks, candleIntervalMs, positionsByCandle,
                        failedOrdersByCandle, lastCandleTimestamp, exhausted,
                        pollVars, pendingEntries >>

\* the answers with which a call gets as far as its orders
GoodAnswers == [lookup |-> "active", retryLookup |-> "active",
                balance |-> -1, yesOk |-> TRUE, noOk |-> TRUE]

\* executeArbitrage, lines 154-399: the call passes every precondition and
\* sends its orders
EntryStarts(ticker, in) ==
    /\ Len(pendingEntries) < MaxPending
    /\ executeArbitrage(This, ticker, in, GoodAnswers).outcome = "filled"
    /\ pendingEntries' = Append(pendingEntries, [ticker |-> ticker, in |-> in])
    /\ last' = Call("entryStarts", ticker, "")
    /\ UNCHANGED << now, ticks, candleIntervalMs, arbitragePositions,
                    positionsByCandle, failedOrdersByCandle,
                    lastCandleTimestamp, exhausted, pollVars, pendingCloses,
                    sellOrders >>

\* executeArbitrage, lines 406-711, from the answers to its orders
EntryCompletes(i, yesOk, noOk) ==
    LET call == pendingEntries[i]
    IN  \E r \in { executeOrders(This, call.ticker, call.in, {}, yesOk, noOk) } :
            /\ arbitragePositions' = r.ledger
            /\ positionsByCandle' = r.pbc
            /\ failedOrdersByCandle' = r.fobc
            /\ exhausted' = exhaustedAfter(r, call.ticker)
            /\ pendingEntries' = RemoveAt(pendingEntries, i)
            /\ last' = Call("entryCompletes", call.ticker, r.outcome)
            /\ UNCHANGED << now, ticks, candleIntervalMs, lastCandleTimestamp,
                            pollVars, pendingCloses, sellOrders >>

\* The positions of one market, monitored by the cycles of two runners
\* that wait for their sell orders at the same time.
NextCloseRace ==
    \/ \E in \in MixedInputs, ex \in ExchangeAnswers :
            ExecuteArbitrage(T1, in, ex) /\ last'.outcome = "filled"
    \/ \E currentYesPrice \in ExitPrices, currentNoPrice \in ExitPrices,
          priceHistory \in PriceHistories :
            MonitorCloses(T1, currentYesPrice, currentNoPrice, priceHistory)
    \/ \E i \in DOMAIN pendingCloses, exchangeOk \in BOOLEAN :
            SellAnswered(i, exchangeOk)

SpecCloseRace == InitAssets /\ [][NextCloseRace]_vars

\* The entries of the runs of one runner that wait for their orders at the
\* same time (startPolling starts a run every interval).
NextEntryRace ==
    \/ \E in \in MixedInputs : EntryStarts(T1, in)
    \/ \E i \in DOMAIN pendingEntries, yesOk \in BOOLEAN, noOk \in BOOLEAN :
            EntryCompletes(i, yesOk, noOk)

SpecEntryRace == Init /\ [][NextEntryRace]_vars

\* ------------------------------------------------------------------ claims
\* the markets of the configured series
Markets == { t \in Tickers : extractSeriesTicker(t) \in DOMAIN polling }

\* C1: while the ledger holds an entry for a ticker, every executeArbitrage
\* call for that ticker, with any prices, quantity, mode or forced side,
\* returns null, places no order and leaves the ledger and the period
\* counters unchanged, whatever the status of the entry.
C1_OnePositionPerMarket ==
    \A t \in DOMAIN arbitragePositions, in \in ExecInputs, ex \in ExchangeAnswers :
        LET r == executeArbitrage(This, t, in, ex)
        IN  ExchangeMayAnswer(t, ex, r.asked) =>
              /\ ~r.result
              /\ r.orders = << >>
              /\ r.ledger = arbitragePositions
              /\ r.pbc = positionsByCandle

\* a call was rejected because of an entry that is no longer open
C1_Witness ==
    /\ last.op = "executeArbitrage"
    /\ last.outcome = "existing"
    /\ last.ticker \in DOMAIN arbitragePositions
    /\ arbitragePositions[last.ticker].status = "partial"


StrategyTypes == { "arbitrage", "technical" }

\* the calls that got as far as placing orders
OrdersPlaced(r) == r.outcome \in { "filled", "partial_fill", "failed" }

\* C2: for every period bucket, series and strategy type the period counter
\* never exceeds the configured maximum (3 for arbitrage, 1 for technical),
\* and a call made when the counter of its bucket, series and type is at
\* the maximum returns null, places no order and increments nothing.
C2_PeriodCounterBounded ==
    /\ \A c \in DOMAIN positionsByCandle : \A s \in DOMAIN positionsByCandle[c] :
          \A ty \in StrategyTypes :
            positionsByCandle[c][s][ty] <= maxPositionsOf(ty)
    /\ \A t \in Markets, in \in ExecInputs, ex \in ExchangeAnswers :
          LET r  == executeArbitrage(This, t, in, ex)
              ty == strategyTypeOf(in.forceSide)
          IN  /\ getPositionsInCurrentCandle(positionsByCandle, CurrentCandle,
                     extractSeriesTicker(t), ty) >= maxPositionsOf(ty)
              /\ ExchangeMayAnswer(t, ex, r.asked)
              => /\ ~r.result
                 /\ r.orders = << >>
                 /\ r.pbc = positionsByCandle

\* a call was refused with the arbitrage counter of the bucket at 3
C2_Witness ==
    /\ last.op = "executeArbitrage"
    /\ last.outcome = "rate_limit"
    /\ getPositionsInCurrentCandle(positionsByCandle, CurrentCandle,
            extractSeriesTicker(last.ticker), "arbitrage") = MAX_ARBITRAGE_POSITIONS

\* C3: the period counter is changed by no operation but an
\* executeArbitrage call whose fill is confirmed (both legs in two-leg mode,
\* the single leg otherwise), which adds one to the counter of its bucket,
\* series and strategy type; a call whose orders fail leaves the period
\* counters as they are and adds one to the retry counter of its market, so
\* that N failing calls in a row leave the two counters at 0 and N.
C3_CounterCountsFills ==
    [][ LET t  == last'.ticker
            s  == extractSeriesTicker(t)
            period(pbc) == [ty \in StrategyTypes |->
                getPositionsInCurrentCandle(pbc, CurrentCandle, s, ty)]
            retries(fobc) == getRetryCount(fobc, CurrentCandle, t)
            filled == last'.op = "executeArbitrage" /\ last'.outcome = "filled"
            failed == /\ last'.op = "executeArbitrage"
                      /\ last'.outcome \in { "failed", "partial_fill" }
        IN  /\ positionsByCandle' # positionsByCandle => filled
            /\ filled =>
                 /\ t \in DOMAIN arbitragePositions'
                 /\ t \notin DOMAIN arbitragePositions
                 /\ LET e   == arbitragePositions'[t]
                        leg == IF e.yesSide # << >> THEN e.yesSide[1]
                               ELSE e.noSide[1]
                        ty  == IF leg.strategy = "Technical-Directional"
                               THEN "technical" ELSE "arbitrage"
                    IN  period(positionsByCandle') =
                          [period(positionsByCandle) EXCEPT ![ty] = @ + 1]
            /\ failed =>
                 /\ positionsByCandle' = positionsByCandle
                 /\ retries(failedOrdersByCandle') = retries(failedOrdersByCandle) + 1
      ]_vars

\* three failing calls in one bucket: period counter 0, retry counter 3
C3_Witness ==
    /\ last.op = "executeArbitrage"
    /\ last.outcome = "failed"
    /\ positionsByCandle = EmptyMap
    /\ getRetryCount(failedOrdersByCandle, CurrentCandle, last.ticker) = 3

\* C4: in two-leg mode an entry is stored only if (yesAsk + noAsk) * (1 +
\* fee rate) is below $1.00; when it is $1.00 or more the call returns null,
\* places no order and stores no entry.
C4_TwoLegOnlyBelowOneDollar ==
    \A t \in Markets, in \in ExecInputs, ex \in ExchangeAnswers :
        LET r  == executeArbitrage(This, t, in, ex)
            \* (yesAsk + noAsk) * 1.007 < 1.00, in micro-dollars times 1000
            below == (in.yesPrice + in.noPrice) * (1000 + KALSHI_FEE_RATE) < USD * 1000
        IN  (in.bothSides /\ ExchangeMayAnswer(t, ex, r.asked)) =>
              /\ r.ledger # arbitragePositions => below
              /\ ~below => /\ ~r.result
                           /\ r.orders = << >>
                           /\ r.ledger = arbitragePositions

\* a two-leg call was refused for its cost: the prices of the only such
\* input sum to $0.995, which is below $1.00 without the fees only
C4_Witness ==
    /\ last.op = "executeArbitrage"
    /\ last.outcome = "invalid_arb"
    /\ \E in \in ExecInputs :
          /\ in.bothSides
          /\ in.yesPrice + in.noPrice < USD
          /\ invalidArbitrage(in.bothSides, in.yesPrice, in.noPrice, in.quantity)

\* C5: when in two-leg mode one leg is bought and the other is not, the
\* call returns null, stores no entry, adds one to the retry counter of the
\* market, leaves the period counters unchanged and sends no order other
\* than the two buy orders (no cancel, no sell).
C5_PartialFillStoresNothing ==
    \A t \in Markets, in \in ExecInputs, ex \in ExchangeAnswers :
        LET r  == executeArbitrage(This, t, in, ex)
            yesBought == placeOrder("buy", in.yesPrice, in.quantity, ex.yesOk)
            noBought  == placeOrder("buy", in.noPrice, in.quantity, ex.noOk)
        IN  (/\ in.bothSides
             /\ yesBought # noBought
             /\ OrdersPlaced(r)
             /\ ExchangeMayAnswer(t, ex, r.asked)) =>
              /\ ~r.result
              /\ r.ledger = arbitragePositions
              /\ getRetryCount(r.fobc, CurrentCandle, t) =
                    getRetryCount(failedOrdersByCandle, CurrentCandle, t) + 1
              /\ r.pbc = positionsByCandle
              /\ Len(r.orders) <= 2
              /\ \A i \in DOMAIN r.orders : r.orders[i].action = "buy"

\* a two-leg call has bought one leg only
C5_Witness ==
    /\ last.op = "executeArbitrage"
    /\ last.outcome = "partial_fill"
    /\ last.ticker \notin DOMAIN arbitragePositions
    /\ getRetryCount(failedOrdersByCandle, CurrentCandle, last.ticker) > 0

\* C8: an entry has status closed exactly when both its legs are absent.
C8_ClosedIffNoLegs ==
    \A t \in DOMAIN arbitragePositions :
        LET e == arbitragePositions[t]
        IN  e.status = "closed" <=> (e.yesSide = << >> /\ e.noSide = << >>)

\* closePosition has sold the last leg of an entry
C8_Witness ==
    /\ last.op = "closePosition"
    /\ last.ticker \in DOMAIN arbitragePositions
    /\ arbitragePositions[last.ticker].status = "closed"
    /\ arbitragePositions[last.ticker].yesSide = << >>
    /\ arbitragePositions[last.ticker].noSide = << >>

\* C6: once the retry counter of a market has reached MAX_RETRIES in a
\* bucket, every executeArbitrage call for that market returns null without
\* placing an order until the next bucket starts.
C6_NoOrderAfterMaxRetries ==
    \A t \in Markets, in \in ExecInputs, ex \in ExchangeAnswers :
        LET r == executeArbitrage(This, t, in, ex)
        IN  (exhausted[t] = CurrentCandle /\ ExchangeMayAnswer(t, ex, r.asked)) =>
              /\ ~r.result
              /\ r.orders = << >>

\* C7: an entry with status partial has exactly one leg, and an entry with
\* both legs has status open.
C7_PartialMeansOneLeg ==
    \A t \in DOMAIN arbitragePositions :
        LET e == arbitragePositions[t]
            legs == Len(e.yesSide) + Len(e.noSide)
        IN  /\ e.status = "partial" => legs = 1
            /\ legs = 2 => e.status = "open"
\* C10: two runs of the runner of one asset are never in progress at the
\* same time.
C10_OneCycleAtATime ==
    \A seriesTicker \in DOMAIN cycles : InFlight(seriesTicker) <= 1

\* the entry of ticker t and its retry counters are the same before and
\* after the step
Untouched(t) ==
    /\ (t \in DOMAIN arbitragePositions) = (t \in DOMAIN arbitragePositions')
    /\ t \in DOMAIN arbitragePositions => arbitragePositions'[t] = arbitragePositions[t]
    /\ \A c \in (DOMAIN failedOrdersByCandle) \cup (DOMAIN failedOrdersByCandle') :
            getRetryCount(failedOrdersByCandle', c, t)
                = getRetryCount(failedOrdersByCandle, c, t)

\* C9: a cycle run for one asset leaves the ledger entries and the retry
\* counters of the markets of every other asset as they were.
C9_NoCrossAssetMutation ==
    [][last'.op \in {"run", "runCleanup"} =>
        \A t \in Markets :
            extractSeriesTicker(t) # extractSeriesTicker(last'.ticker)
                => Untouched(t)]_vars

\* the steps of seq are all named in order and occur in the order of order
InOrder(seq, order) ==
    /\ \A i \in DOMAIN seq : \E k \in DOMAIN order : order[k] = seq[i]
    /\ \A i, j \in DOMAIN seq :
            i < j => \E k, l \in DOMAIN order :
                        k < l /\ order[k] = seq[i] /\ order[l] = seq[j]

\* the parts of a cycle in the order of the code: StrategyRunner.run lines
\* 53-57, 62-112, 116, 126-196, 262-395
RunOrder == << "cleanup", "fetch", "monitor", "decision", "entry" >>

\* the parts of a cycle in the order the decision would come before the
\* exit evaluation
DecisionFirstOrder == << "cleanup", "fetch", "decision", "monitor", "entry" >>

TargetReached(position, currentYesPrice, currentNoPrice) ==
    \/ /\ position.yesSide # << >>
       /\ legProfit(position.yesSide[1], currentYesPrice) >= PROFIT_TARGET_USD * USD
    \/ /\ position.noSide # << >>
       /\ legProfit(position.noSide[1], currentNoPrice) >= PROFIT_TARGET_USD * USD

\* the reason of the highest volatility tier the price move reaches; "" when
\* it reaches none
TierReached(priceHistory) ==
    IF priceMoveReaches(priceHistory, STDEV4) THEN "stdev4"
    ELSE IF priceMoveReaches(priceHistory, STDEV3) THEN "stdev3"
    ELSE IF priceMoveReaches(priceHistory, STDEV2) THEN "stdev2"
    ELSE IF priceMoveReaches(priceHistory, STDEV1) THEN "stdev1"
    ELSE ""

\* C12 as stated: when a leg's profit reaches the profit target and a
\* volatility tier is reached in the same evaluation, and no strike stop
\* loss applies, shouldCloseEarly reports the profit-target reason.
C12_TargetBeforeTier ==
    \A t \in DOMAIN arbitragePositions, y \in ExitPrices, n \in ExitPrices,
       h \in PriceHistories :
        (/\ strikeStopLoss(arbitragePositions[t], h) = ""
         /\ TargetReached(arbitragePositions[t], y, n)
         /\ TierReached(h) # "")
        => shouldCloseEarly(arbitragePositions, t, y, n, h).reason = "profit_target"

\* C12, amended: when a leg's profit reaches the profit target and a
\* volatility tier is reached in the same evaluation, and no strike stop
\* loss applies, shouldCloseEarly reports the reason of the highest tier
\* reached and closes both legs, whether the leg is the YES or the NO leg;
\* it reports the profit-target reason when no tier is reached.
C12_TierBeforeTarget ==
    \A t \in DOMAIN arbitragePositions, y \in ExitPrices, n \in ExitPrices,
       h \in PriceHistories :
        LET d == shouldCloseEarly(arbitragePositions, t, y, n, h)
        IN  (/\ strikeStopLoss(arbitragePositions[t], h) = ""
             /\ TargetReached(arbitragePositions[t], y, n))
            => /\ d.shouldClose /\ d.shouldCloseYes /\ d.shouldCloseNo
               /\ d.reason = IF TierReached(h) # "" THEN TierReached(h)
                             ELSE "profit_target"

\* an evaluation has reported a tier for an entry whose NO leg, and not its
\* YES leg, reached the profit target
C12_Witness ==
    /\ last.op = "shouldCloseEarly"
    /\ last.outcome = "stdev2"
    /\ last.ticker \in DOMAIN arbitragePositions
    /\ LET position == arbitragePositions[last.ticker]
       IN  /\ position.noSide # << >>
           /\ legProfit(position.noSide[1], last.args[2]) >= PROFIT_TARGET_USD * USD
           /\ ~(/\ position.yesSide # << >>
                /\ legProfit(position.yesSide[1], last.args[1]) > 0)

\* the entries of the ledger that autoCleanupPositions is to remove: older
\* than AUTO_CLEAR_MINUTES, or closed
Removable(ledger, nowv) ==
    { t \in DOMAIN ledger :
        nowv - ledger[t].entryTime > AUTO_CLEAR_MINUTES \/ ledger[t].status = "closed" }

\* C13: every autoCleanupPositions call removes each position older than
\* AUTO_CLEAR_MINUTES and each closed position, and after the call no such
\* position is in the ledger.
C13_CleanupRemovesStaleAndClosed ==
    [][last'.op = "autoCleanupPositions" =>
        /\ Removable(arbitragePositions, now) \cap DOMAIN arbitragePositions' = {}
        /\ Removable(arbitragePositions', now) = {}]_vars

\* a call has removed a closed position that was not older than
\* AUTO_CLEAR_MINUTES, in the candle of the call before
C13_Witness ==
    /\ last.op = "autoCleanupPositions"
    /\ last.outcome = ""
    /\ arbitragePositions = EmptyMap
    /\ lastCandleTimestamp = 600
    /\ now = 605
    /\ positionsByCandle # EmptyMap

\* the entries of the ledger with status open or partial that are younger
\* than AUTO_CLEAR_MINUTES
YoungAndActive(ledger, nowv) ==
    { t \in DOMAIN ledger :
        /\ ledger[t].status \in {"open", "partial"}
        /\ nowv - ledger[t].entryTime < AUTO_CLEAR_MINUTES }

\* C14: autoCleanupPositions leaves in the ledger every position
\* with status open or partial that is younger than AUTO_CLEAR_MINUTES.
C14_YoungPositionsKept ==
    [][last'.op = "autoCleanupPositions" =>
        \A t \in YoungAndActive(arbitragePositions, now) :
            /\ t \in DOMAIN arbitragePositions'
            /\ arbitragePositions'[t] = arbitragePositions[t]]_vars

\* ------------------------------------------- claims on the technical decision
\* analyzeTechnicalSignals has returned: its argument and its result
Analyzed == last.op = "analyzeTechnicalSignals"
AnalyzedSignals == last.args[1]
AnalyzedDecision == last.args[2]

\* the price series of the bundle crossed strike * (1 + gap) upwards
StrikeCrossUp(signals) ==
    /\ signals.strikePrice # 0
    /\ crossAbove(signals.priceSeries,
                  signals.strikePrice * (100000 + STRIKE_GAP_PERCENT), 100000)

\* the price series of the bundle crossed strike * (1 - gap) downwards
StrikeCrossDown(signals) ==
    /\ signals.strikePrice # 0
    /\ crossBelow(signals.priceSeries,
                  signals.strikePrice * (100000 - STRIKE_GAP_PERCENT), 100000)

EnoughTimeLeft(signals) ==
    signals.timeLeftMinutes = -1 \/ signals.timeLeftMinutes >= 5

SignalCountDifference(decision) ==
    Abs(Len(decision.signals.bullish) - Len(decision.signals.bearish))

C16_ConflictingSignalsNoTrade ==
    ( /\ Analyzed
      /\ ~StrikeCrossUp(AnalyzedSignals)
      /\ ~StrikeCrossDown(AnalyzedSignals)
      /\ SignalCountDifference(AnalyzedDecision) < 2 ) =>
        AnalyzedDecision.action = "NO_TRADE"

\* no strike cross, a signal count difference of 1, a score above the
\* minimum and a confidence above the threshold: NO_TRADE
C16_Witness ==
    /\ Analyzed
    /\ EnoughTimeLeft(AnalyzedSignals)
    /\ ~StrikeCrossUp(AnalyzedSignals)
    /\ ~StrikeCrossDown(AnalyzedSignals)
    /\ SignalCountDifference(AnalyzedDecision) = 1
    /\ AnalyzedDecision.scores.bullish + AnalyzedDecision.scores.bearish
            >= MIN_TOTAL_SCORE
    /\ AnalyzedDecision.confidence >= CONFIDENCE_THRESHOLD
    /\ AnalyzedDecision.action = "NO_TRADE"

\* the entries of the signal lists made before the time filter
BeforeTimeFilter(list) ==
    \A i \in DOMAIN list : list[i] \in { "adx", "strike_distance" }

\* C17: when the minutes to expiry are known and below 5,
\* analyzeTechnicalSignals returns NO_TRADE with confidence 0 and the
\* time-based reason for every other input, and no cross, momentum or
\* delta score is computed.
C17_TimeFilterFirst ==
    ( /\ Analyzed
      /\ AnalyzedSignals.timeLeftMinutes # -1
      /\ AnalyzedSignals.timeLeftMinutes < 5 ) =>
        /\ AnalyzedDecision.action = "NO_TRADE"
        /\ AnalyzedDecision.confidence = 0
        /\ AnalyzedDecision.reason = "time"
        /\ AnalyzedDecision.scores = [bullish |-> 0, bearish |-> 0]
        /\ BeforeTimeFilter(AnalyzedDecision.signals.bullish)
        /\ BeforeTimeFilter(AnalyzedDecision.signals.bearish)

\* 4 minutes left, with an upward strike cross, a MACD cross, an RSI cross
\* and a positive delta in the bundle: NO_TRADE for the time
C17_Witness ==
    /\ Analyzed
    /\ AnalyzedSignals.timeLeftMinutes = 4
    /\ StrikeCrossUp(AnalyzedSignals)
    /\ AnalyzedSignals.macdSeries # << >>
    /\ crossUp(AnalyzedSignals.macdSeries[1].macd, AnalyzedSignals.macdSeries[1].signal)
    /\ crossAbove(AnalyzedSignals.rsiSeries, 50, 1)
    /\ AnalyzedSignals.delta # << >>
    /\ AnalyzedSignals.delta[1].deltaPercent3 > 50
    /\ AnalyzedDecision.action = "NO_TRADE"
    /\ AnalyzedDecision.reason = "time"

\* the ADX of the bundle is below 22 or its directional indices are less
\* than 3 apart
WeakTrend(signals) ==
    /\ signals.adx # << >>
    /\ \/ signals.adx[1].adx < 22
       \/ Abs(signals.adx[1].plusDI - signals.adx[1].minusDI) < 3

\* C19: if ADX is below 22, or the absolute difference between +DI and
\* -DI is below 3, the technical strategy returns NO_TRADE immediately
\* without evaluating any other indicator (ADX is a hard filter).
C19_AdxHardFilter ==
    (Analyzed /\ WeakTrend(AnalyzedSignals)) =>
        /\ AnalyzedDecision.action = "NO_TRADE"
        /\ AnalyzedDecision.scores = [bullish |-> 0, bearish |-> 0]

\* ------------------------------------------------------- claims on the P&L
TwoLegs(position) == position.yesSide # << >> /\ position.noSide # << >>

\* C20: for a two-leg position with entry prices c_yes, c_no and fees
\* fee_yes, fee_no, expectedProfit = 1.00 - (c_yes + fee_yes + c_no +
\* fee_no), and calculatePnL returns, for either winning side,
\* 1.00 * quantity - totalCost.
C20_ProfitRoundTrip ==
    /\ \A t \in DOMAIN arbitragePositions :
            TwoLegs(arbitragePositions[t]) =>
                arbitragePositions[t].expectedProfit =
                    USD - ( arbitragePositions[t].yesSide[1].entryPrice
                            + arbitragePositions[t].yesSide[1].fees
                            + arbitragePositions[t].noSide[1].entryPrice
                            + arbitragePositions[t].noSide[1].fees )
    /\ ( /\ last.op = "calculatePnL"
         /\ last.ticker \in DOMAIN arbitragePositions
         /\ TwoLegs(arbitragePositions[last.ticker]) ) =>
            \E side \in { arbitragePositions[last.ticker].yesSide[1],
                          arbitragePositions[last.ticker].noSide[1] } :
                last.args[1] = USD * side.quantity
                               - arbitragePositions[last.ticker].totalCost

\* calculatePnL on a two-leg entry of 100 contracts
C20_Witness ==
    /\ last.op = "calculatePnL"
    /\ last.ticker \in DOMAIN arbitragePositions
    /\ TwoLegs(arbitragePositions[last.ticker])
    /\ arbitragePositions[last.ticker].yesSide[1].quantity = 100
    /\ arbitragePositions[last.ticker].expectedProfit = USD - 604200
    /\ last.args[1] = 100 * USD - 604200

\* ------------------------------------------------- claims on the failures
\* one of the orders sent was failed by the exchange
SomeOrderFailed(orders) == \E i \in DOMAIN orders : ~orders[i].success

\* one of the orders sent was accepted by the exchange
SomeOrderPlaced(orders) == \E i \in DOMAIN orders : orders[i].success

C22_BalanceCheckFailsOpen ==
    \A t \in Markets, in \in ExecInputs, ex \in ExchangeAnswers :
        LET r == executeArbitrage(This, t, in, ex)
            cost == estimatedTotalCost(in.yesPrice, in.noPrice, in.quantity)
        IN  (ExchangeMayAnswer(t, ex, r.asked) /\ "balance" \in r.asked) =>
                /\ (ex.balance # -1 /\ ex.balance < cost) =>
                        /\ ~r.result
                        /\ r.orders = << >>
                        /\ r.ledger = arbitragePositions
                /\ ex.balance = -1 => OrdersPlaced(r)

\* a call was refused for the balance, and the same call goes through to
\* its orders when the balance lookup fails
C22_Witness ==
    /\ last.op = "executeArbitrage"
    /\ last.outcome = "balance"
    /\ last.ticker \notin DOMAIN arbitragePositions
    /\ \E in \in ExecInputs, ex \in ExchangeAnswers :
            /\ ex.balance = -1
            /\ ex.yesOk /\ ex.noOk
            /\ executeArbitrage(This, last.ticker, in, ex).outcome = "filled"

\* ------------------------------------------------- claims on the entries
\* the period counters of the current bucket for a series
PeriodCounts(pbc, seriesTicker) ==
    [ty \in StrategyTypes |->
        getPositionsInCurrentCandle(pbc, CurrentCandle, seriesTicker, ty)]

\* C23: when both legs of a two-leg order fill, executeArbitrage stores one
\* ledger entry for the ticker with both legs present, status open,
\* totalCost = yesAsk + yesFee + noAsk + noFee and expectedProfit = 1.00 -
\* totalCost, and increments the arbitrage period counter of the market's
\* series by exactly one.
C23_TwoLegFillStored ==
    \A t \in Markets, in \in ExecInputs, ex \in ExchangeAnswers :
        LET r == executeArbitrage(This, t, in, ex)
            s == extractSeriesTicker(t)
            e == r.ledger[t]
        IN  ( /\ in.bothSides
              /\ ExchangeMayAnswer(t, ex, r.asked)
              /\ OrdersPlaced(r)
              /\ placeOrder("buy", in.yesPrice, in.quantity, ex.yesOk)
              /\ placeOrder("buy", in.noPrice, in.quantity, ex.noOk) ) =>
                /\ r.result
                /\ t \notin DOMAIN arbitragePositions
                /\ DOMAIN r.ledger = DOMAIN arbitragePositions \cup { t }
                /\ \A u \in DOMAIN arbitragePositions :
                        r.ledger[u] = arbitragePositions[u]
                /\ TwoLegs(e)
                /\ e.yesSide[1].entryPrice = in.yesPrice
                /\ e.noSide[1].entryPrice = in.noPrice
                /\ e.yesSide[1].quantity = in.quantity
                /\ e.noSide[1].quantity = in.quantity
                /\ e.status = "open"
                /\ e.totalCost = in.yesPrice + (in.yesPrice * 7) \div 1000
                                 + in.noPrice + (in.noPrice * 7) \div 1000
                /\ e.expectedProfit = USD - e.totalCost
                /\ PeriodCounts(r.pbc, s) =
                        [PeriodCounts(positionsByCandle, s)
                            EXCEPT !["arbitrage"] = @ + 1]

\* a two-leg entry at 0.30 and 0.30 was stored: cost 0.6042, one arbitrage
\* position counted
C23_Witness ==
    /\ last.op = "executeArbitrage"
    /\ last.outcome = "filled"
    /\ last.ticker \in DOMAIN arbitragePositions
    /\ TwoLegs(arbitragePositions[last.ticker])
    /\ arbitragePositions[last.ticker].status = "open"
    /\ arbitragePositions[last.ticker].totalCost = 604200
    /\ arbitragePositions[last.ticker].expectedProfit = 395800
    /\ PeriodCounts(positionsByCandle, extractSeriesTicker(last.ticker))
            = [arbitrage |-> 1, technical |-> 0]

\* C24: in single-leg mode executeArbitrage places exactly one buy order,
\* on the forced side when one is supplied and otherwise on the cheaper
\* side (an order placeOrder refuses for its price is the one order, and
\* has failed); on a fill it stores an entry holding only that leg with the
\* strike snapshot and increments the period counter of its strategy type
\* (technical when a side is forced, arbitrage otherwise); on a failed
\* order it increments the retry counter, stores nothing and returns null.
C24_SingleLegEntry ==
    \A t \in Markets, in \in ExecInputs, ex \in ExchangeAnswers :
        LET r == executeArbitrage(This, t, in, ex)
            s == extractSeriesTicker(t)
            side == IF in.forceSide # "" THEN in.forceSide
                    ELSE IF in.yesPrice < in.noPrice THEN "yes" ELSE "no"
            other == IF side = "yes" THEN "noSide" ELSE "yesSide"
            held == IF side = "yes" THEN "yesSide" ELSE "noSide"
            ty == IF in.forceSide # "" THEN "technical" ELSE "arbitrage"
            price == IF side = "yes" THEN in.yesPrice ELSE in.noPrice
            sent == placeOrderSends("buy", price, in.quantity)
        IN  (~in.bothSides /\ ExchangeMayAnswer(t, ex, r.asked) /\ OrdersPlaced(r)) =>
                /\ Len(r.orders) = (IF sent THEN 1 ELSE 0)
                /\ \A i \in DOMAIN r.orders :
                        /\ r.orders[i].action = "buy"
                        /\ r.orders[i].side = side
                        /\ r.orders[i].quantity = in.quantity
                /\ SomeOrderPlaced(r.orders) =>
                        /\ r.result
                        /\ DOMAIN r.ledger = DOMAIN arbitragePositions \cup { t }
                        /\ r.ledger[t][other] = << >>
                        /\ Len(r.ledger[t][held]) = 1
                        /\ r.ledger[t][held][1].entryPrice = price
                        /\ r.ledger[t][held][1].strikePrice = in.strikePrice
                        /\ r.ledger[t].status = "open"
                        /\ PeriodCounts(r.pbc, s) =
                                [PeriodCounts(positionsByCandle, s) EXCEPT ![ty] = @ + 1]
                        /\ r.fobc = failedOrdersByCandle
                /\ ~SomeOrderPlaced(r.orders) =>
                        /\ ~r.result
                        /\ r.ledger = arbitragePositions
                        /\ PeriodCounts(r.pbc, s) = PeriodCounts(positionsByCandle, s)
                        /\ getRetryCount(r.fobc, CurrentCandle, t) =
                              getRetryCount(failedOrdersByCandle, CurrentCandle, t) + 1

\* a leg was bought on the forced, dearer side: the entry holds the YES leg
\* alone, with the strike, and one technical position is counted
C24_Witness ==
    /\ last.op = "executeArbitrage"
    /\ last.outcome = "filled"
    /\ last.ticker \in DOMAIN arbitragePositions
    /\ arbitragePositions[last.ticker].noSide = << >>
    /\ arbitragePositions[last.ticker].yesSide # << >>
    /\ arbitragePositions[last.ticker].yesSide[1].entryPrice = 700000
    /\ arbitragePositions[last.ticker].yesSide[1].strikePrice = 100000
    /\ PeriodCounts(positionsByCandle, extractSeriesTicker(last.ticker))
            = [arbitrage |-> 0, technical |-> 1]

\* ------------------------------------------------------- claims on the exits
HoldsOnlyYes(position) == position.yesSide # << >> /\ position.noSide = << >>
HoldsOnlyNo(position) == position.noSide # << >> /\ position.yesSide = << >>

TierReasons == { "stdev1", "stdev2", "stdev3", "stdev4" }

\* some held leg of position would be sold at a profit at the given prices
PositiveLegProfit(position, currentYesPrice, currentNoPrice) ==
    \/ /\ position.yesSide # << >>
       /\ legProfit(position.yesSide[1], currentYesPrice) > 0
    \/ /\ position.noSide # << >>
       /\ legProfit(position.noSide[1], currentNoPrice) > 0

\* C25: for a single-leg position with a strike and a price history,
\* shouldCloseEarly answers, whatever the profits, to close only the held
\* leg with profit 0 when the latest price is at most strike * 1.0005 (YES
\* held) or at least strike * 0.9995 (NO held); a position holding both legs
\* never gets this answer.
C25_StrikeStopLossFirst ==
    \A t \in DOMAIN arbitragePositions, y \in ExitPrices, n \in ExitPrices,
       h \in PriceHistories :
        LET position == arbitragePositions[t]
            d == shouldCloseEarly(arbitragePositions, t, y, n, h)
        IN  /\ (/\ HoldsOnlyYes(position) /\ Len(h) > 0
                /\ position.yesSide[1].strikePrice # 0
                /\ h[Len(h)] * 10000 <= position.yesSide[1].strikePrice * 10005)
               => d = Decision(TRUE, TRUE, FALSE, "strike_stop_yes", << 0 >>)
            /\ (/\ HoldsOnlyNo(position) /\ Len(h) > 0
                /\ position.noSide[1].strikePrice # 0
                /\ h[Len(h)] * 10000 >= position.noSide[1].strikePrice * 9995)
               => d = Decision(TRUE, FALSE, TRUE, "strike_stop_no", << 0 >>)
            /\ TwoLegs(position)
               => d.reason \notin { "strike_stop_yes", "strike_stop_no" }

\* an evaluation has answered the strike stop loss for a NO leg that would
\* be sold at a profit after a price move that reaches a tier
C25_Witness ==
    /\ last.op = "shouldCloseEarly"
    /\ last.outcome = "strike_stop_no"
    /\ last.ticker \in DOMAIN arbitragePositions
    /\ HoldsOnlyNo(arbitragePositions[last.ticker])
    /\ legProfit(arbitragePositions[last.ticker].noSide[1], last.args[2]) > 0
    /\ TierReached(last.args[3]) # ""

\* C26 as stated: with a price history, a held leg whose profit is positive
\* and a price move that reaches the lowest tier, shouldCloseEarly asks to
\* close both legs and reports the highest tier reached; with no price
\* history or no positive profit it reports no tier.
C26_TierExit ==
    \A t \in DOMAIN arbitragePositions, y \in ExitPrices, n \in ExitPrices,
       h \in PriceHistories :
        LET position == arbitragePositions[t]
            d == shouldCloseEarly(arbitragePositions, t, y, n, h)
        IN  /\ (/\ Len(h) > 0
                /\ PositiveLegProfit(position, y, n)
                /\ priceMoveReaches(h, STDEV1))
               => /\ d.shouldClose /\ d.shouldCloseYes /\ d.shouldCloseNo
                  /\ d.reason = TierReached(h)
            /\ (Len(h) = 0 \/ ~PositiveLegProfit(position, y, n))
               => d.reason \notin TierReasons

\* C26, amended: the same, when no strike stop loss applies to the position;
\* when one applies no tier is reported.
C26_TierExitAfterStrikeStop ==
    \A t \in DOMAIN arbitragePositions, y \in ExitPrices, n \in ExitPrices,
       h \in PriceHistories :
        LET position == arbitragePositions[t]
            d == shouldCloseEarly(arbitragePositions, t, y, n, h)
        IN  /\ (/\ strikeStopLoss(position, h) = ""
                /\ Len(h) > 0
                /\ PositiveLegProfit(position, y, n)
                /\ priceMoveReaches(h, STDEV1))
               => /\ d.shouldClose /\ d.shouldCloseYes /\ d.shouldCloseNo
                  /\ d.reason = TierReached(h)
            /\ (\/ strikeStopLoss(position, h) # ""
                \/ Len(h) = 0
                \/ ~PositiveLegProfit(position, y, n))
               => d.reason \notin TierReasons

\* an evaluation has reported the second tier for a position with one leg
\* at a profit and no strike stop loss
C26_Witness ==
    /\ last.op = "shouldCloseEarly"
    /\ last.outcome = "stdev2"
    /\ last.ticker \in DOMAIN arbitragePositions
    /\ strikeStopLoss(arbitragePositions[last.ticker], last.args[3]) = ""
    /\ PositiveLegProfit(arbitragePositions[last.ticker], last.args[1], last.args[2])
    /\ priceMoveReaches(last.args[3], STDEV2)
    /\ ~priceMoveReaches(last.args[3], STDEV3)

\* a tier or the profit target closes a leg of position
LegExitApplies(position, currentYesPrice, currentNoPrice, priceHistory) ==
    \/ /\ position.yesSide # << >>
       /\ legExit(position.yesSide[1], currentYesPrice, priceHistory) # ""
    \/ /\ position.noSide # << >>
       /\ legExit(position.noSide[1], currentNoPrice, priceHistory) # ""

\* C27: when no tier or profit-target exit applies, both legs are held,
\* |1.00 - (yesAsk + noAsk)| < 0.02 and selling both legs after fees brings
\* more than totalCost, shouldCloseEarly asks to close both legs with that
\* profit; a single-leg position never gets this answer.
C27_NormalizationExit ==
    \A t \in DOMAIN arbitragePositions, y \in ExitPrices, n \in ExitPrices,
       h \in PriceHistories :
        LET position == arbitragePositions[t]
            d == shouldCloseEarly(arbitragePositions, t, y, n, h)
            value == (y - fee(y)) + (n - fee(n))
        IN  /\ (/\ ~LegExitApplies(position, y, n, h)
                /\ TwoLegs(position)
                /\ Abs(USD - (y + n)) * 100 < 2 * USD
                /\ value > position.totalCost)
               => d = Decision(TRUE, TRUE, TRUE, "normalized",
                               << value - position.totalCost >>)
            /\ ~TwoLegs(position) => d.reason # "normalized"

\* an evaluation has answered the normalization exit for a position with
\* both legs
C27_Witness ==
    /\ last.op = "shouldCloseEarly"
    /\ last.outcome = "normalized"
    /\ last.ticker \in DOMAIN arbitragePositions
    /\ TwoLegs(arbitragePositions[last.ticker])
    /\ last.args[1] + last.args[2] = USD

\* one of the checks before the legacy stop loss fires
EarlierCheckFires(position, currentYesPrice, currentNoPrice, priceHistory) ==
    \/ strikeStopLoss(position, priceHistory) # ""
    \/ LegExitApplies(position, currentYesPrice, currentNoPrice, priceHistory)
    \/ normalizedExit(position, currentYesPrice, currentNoPrice)

\* C28: for a single-leg position on which no earlier check fires,
\* shouldCloseEarly asks to close only the held leg, with a negative
\* profit, exactly when the leg's current ask is more than 15% below its
\* entry price; in every remaining case (no position included) it answers
\* hold.
C28_LegacyStopLossOrHold ==
    \A t \in Markets, y \in ExitPrices, n \in ExitPrices, h \in PriceHistories :
        LET d == shouldCloseEarly(arbitragePositions, t, y, n, h)
        IN  IF t \notin DOMAIN arbitragePositions THEN ~d.shouldClose
            ELSE LET position == arbitragePositions[t]
                     dropped(leg, ask) == (leg.entryPrice - ask) * 100 > 15 * leg.entryPrice
                 IN  ~EarlierCheckFires(position, y, n, h)
                     => IF HoldsOnlyYes(position) /\ dropped(position.yesSide[1], y)
                        THEN /\ d.shouldClose /\ d.shouldCloseYes /\ ~d.shouldCloseNo
                             /\ d.reason = "stop_loss"
                             /\ d.profit # << >> /\ d.profit[1] < 0
                        ELSE IF HoldsOnlyNo(position) /\ dropped(position.noSide[1], n)
                        THEN /\ d.shouldClose /\ ~d.shouldCloseYes /\ d.shouldCloseNo
                             /\ d.reason = "stop_loss"
                             /\ d.profit # << >> /\ d.profit[1] < 0
                        ELSE ~d.shouldClose /\ d.reason = "hold"

\* an evaluation has answered hold for a single leg that lost less than
\* 15%, and the ledger holds a single leg that lost more
C28_Witness ==
    /\ last.op = "shouldCloseEarly"
    /\ last.outcome = "hold"
    /\ last.ticker \in DOMAIN arbitragePositions
    /\ HoldsOnlyYes(arbitragePositions[last.ticker])
    /\ arbitragePositions[last.ticker].yesSide[1].entryPrice > last.args[1]
    /\ \E t \in DOMAIN arbitragePositions :
          /\ HoldsOnlyYes(arbitragePositions[t])
          /\ shouldCloseEarly(arbitragePositions, t, 0, 0, << >>).reason = "stop_loss"

\* ------------------------------------------------------ claims on the close
\* the number of legs position holds
LegsHeld(position) ==
    (IF position.yesSide # << >> THEN 1 ELSE 0)
    + (IF position.noSide # << >> THEN 1 ELSE 0)

\* C29: closePosition sends one market sell order for each requested leg
\* that is present, removes from the position exactly the legs whose sell
\* order succeeded, sets the status to closed when no leg remains and to
\* partial when one leg remains, and returns true exactly when it closed at
\* least one leg.
C29_ClosePositionLegs ==
    \A t \in DOMAIN arbitragePositions, closeYes \in BOOLEAN, closeNo \in BOOLEAN,
       ex \in SellAnswers :
        LET position == arbitragePositions[t]
            r        == closePosition(arbitragePositions, t, closeYes, closeNo,
                                      ex.yesOk, ex.noOk)
            after    == r.ledger[t]
            sellYes  == closeYes /\ position.yesSide # << >>
            sellNo   == closeNo /\ position.noSide # << >>
            sell(side, leg, ok) ==
                << [action |-> "sell", side |-> side,
                    quantity |-> leg[1].quantity, success |-> ok] >>
        IN  /\ r.orders = (IF sellYes THEN sell("yes", position.yesSide, ex.yesOk)
                           ELSE << >>)
                          \o (IF sellNo THEN sell("no", position.noSide, ex.noOk)
                              ELSE << >>)
            /\ after.yesSide = IF sellYes /\ ex.yesOk THEN << >> ELSE position.yesSide
            /\ after.noSide = IF sellNo /\ ex.noOk THEN << >> ELSE position.noSide
            /\ LegsHeld(after) = 0 => after.status = "closed"
            /\ LegsHeld(after) = 1 => after.status = "partial"
            /\ r.returned <=> LegsHeld(after) < LegsHeld(position)
            /\ DOMAIN r.ledger = DOMAIN arbitragePositions
            /\ \A u \in DOMAIN arbitragePositions \ { t } :
                  r.ledger[u] = arbitragePositions[u]

\* closePosition has sold one of the two legs it was asked to sell and
\* returned true: one leg remains and the status is partial
C29_Witness ==
    /\ last.op = "closePosition"
    /\ last.outcome = "true"
    /\ last.ticker \in DOMAIN arbitragePositions
    /\ LegsHeld(arbitragePositions[last.ticker]) = 1
    /\ arbitragePositions[last.ticker].status = "partial"
    /\ arbitragePositions[last.ticker].totalCost
         > arbitragePositions[last.ticker].yesSide[1].entryPrice
           + arbitragePositions[last.ticker].yesSide[1].fees

\* --------------------------------------------- claims on the retry counters
\* C30: the retry counter of a market in the current period keeps its value
\* from one step to the next while the period lasts and the market is
\* before its close time (no operation resets or removes it; a failure adds
\* to it), and it is removed by an executeArbitrage call that finds the
\* market closed or expired.
C30_RetryCounterKept ==
    [][/\ \A t \in Markets :
            (/\ getRetryCount(failedOrdersByCandle, CurrentCandle, t) > 0
             /\ CurrentCandle' = CurrentCandle
             /\ now' < CloseTime(t))
            => getRetryCount(failedOrdersByCandle', CurrentCandle', t)
                 >= getRetryCount(failedOrdersByCandle, CurrentCandle, t)
       /\ (/\ last'.op = "executeArbitrage"
           /\ last'.outcome \in { "market_closed", "market_expired", "retry_closed" })
          => getRetryCount(failedOrdersByCandle', CurrentCandle', last'.ticker) = 0]_vars

\* -------------------------------------------------- claims on the rejections
\* the returns of executeArbitrage on a market that is not open or active,
\* or past its close time
ClosedRejections == { "market_closed", "market_expired", "retry_closed" }

\* the returns on the other preconditions
OtherRejections == { "existing", "max_retries", "rate_limit", "invalid_arb", "balance" }

\* C31 as stated: an executeArbitrage call that rejects on a precondition
\* places no order and leaves the ledger, the period counters and the retry
\* counters unchanged.
C31_RejectionChangesNothing ==
    \A t \in Markets, in \in ExecInputs, ex \in ExchangeAnswers :
        LET r == executeArbitrage(This, t, in, ex)
        IN  (/\ ExchangeMayAnswer(t, ex, r.asked)
             /\ r.outcome \in ClosedRejections \cup OtherRejections)
            => /\ ~r.result /\ r.orders = << >>
               /\ r.ledger = arbitragePositions
               /\ r.pbc = positionsByCandle
               /\ r.fobc = failedOrdersByCandle

\* C31, amended: such a call places no order and leaves the ledger and the
\* period counters unchanged; it leaves the retry counters unchanged too,
\* except that a rejection on a market that is not open or active, or past
\* its close time, removes that market's retry counter of the current
\* period.
C31_RejectionClearsClosedMarket ==
    \A t \in Markets, in \in ExecInputs, ex \in ExchangeAnswers :
        LET r == executeArbitrage(This, t, in, ex)
        IN  (/\ ExchangeMayAnswer(t, ex, r.asked)
             /\ r.outcome \in ClosedRejections \cup OtherRejections)
            => /\ ~r.result /\ r.orders = << >>
               /\ r.ledger = arbitragePositions
               /\ r.pbc = positionsByCandle
               /\ \A c \in DOMAIN failedOrdersByCandle, u \in Markets :
                     getRetryCount(r.fobc, c, u)
                       = IF r.outcome \in ClosedRejections /\ c = CurrentCandle /\ u = t
                         THEN 0
                         ELSE getRetryCount(failedOrdersByCandle, c, u)
               /\ DOMAIN r.fobc \subseteq DOMAIN failedOrdersByCandle

\* a call has found closed a market whose retries had reached the cap in
\* the current period, and the market has no retry counter left
C31_Witness ==
    /\ last.op = "executeArbitrage"
    /\ last.outcome \in ClosedRejections
    /\ exhausted[last.ticker] = CurrentCandle
    /\ getRetryCount(failedOrdersByCandle, CurrentCandle, last.ticker) = 0

\* ------------------------------------------------ claims on the period bucket
\* C32: the period bucket in which a fill or a failed attempt on a market
\* is counted is floor(now / width) * width, with a width of one hour when
\* the market's series is hourly and of 15 minutes otherwise, whatever the
\* series monitored together.
C32_BucketOfTheSeries ==
    \A t \in Markets, in \in MixedInputs, ex \in ExchangeAnswers :
        LET r == executeArbitrage(This, t, in, ex)
            seriesTicker == extractSeriesTicker(t)
            strategyType == strategyTypeOf(in.forceSide)
            bucket == (now \div setCandleInterval(seriesTicker))
                        * setCandleInterval(seriesTicker)
        IN  ExchangeMayAnswer(t, ex, r.asked)
            => /\ r.outcome = "filled"
                  => getPositionsInCurrentCandle(r.pbc, bucket, seriesTicker, strategyType)
                       = getPositionsInCurrentCandle(positionsByCandle, bucket,
                                                     seriesTicker, strategyType) + 1
               /\ r.outcome \in { "failed", "partial_fill" }
                  => getRetryCount(r.fobc, bucket, t)
                       = getRetryCount(failedOrdersByCandle, bucket, t) + 1

C34_TotalCostOfHeldLegs ==
    \A t \in DOMAIN arbitragePositions :
        LET position == arbitragePositions[t]
            cost(side) == IF side = << >> THEN 0
                          ELSE side[1].entryPrice + side[1].fees
        IN  /\ position.totalCost = cost(position.yesSide) + cost(position.noSide)
            /\ position.expectedProfit = USD - position.totalCost

\* ------------------------------------------------ claims on overlapping calls
\* C35: however the closePosition calls of the cycles interleave at their
\* awaits, at most one sell order of a leg waits for its answer at a time
\* and at most one sell order is placed for a leg.
C35_LegSoldOnce ==
    \A leg \in DOMAIN sellOrders :
        /\ sellOrders[leg] <= 1
        /\ \A i \in DOMAIN pendingCloses, j \in DOMAIN pendingCloses :
              (/\ << pendingCloses[i].ticker, pendingCloses[i].stage >> = leg
               /\ << pendingCloses[j].ticker, pendingCloses[j].stage >> = leg)
              => i = j

\* C36: when executeArbitrage calls for one market overlap at their awaits,
\* at most one of them sends buy orders, none sends them for a market that
\* has a ledger entry, and no period counter exceeds its maximum.
C36_OneEntryPerMarket ==
    /\ \A i \in DOMAIN pendingEntries, j \in DOMAIN pendingEntries :
          pendingEntries[i].ticker = pendingEntries[j].ticker => i = j
    /\ \A i \in DOMAIN pendingEntries :
          pendingEntries[i].ticker \notin DOMAIN arbitragePositions
    /\ \A c \in DOMAIN positionsByCandle, seriesTicker \in DOMAIN polling,
          strategyType \in StrategyTypes :
          getPositionsInCurrentCandle(positionsByCandle, c, seriesTicker, strategyType)
              <= maxPositionsOf(strategyType)

\* ------------------------------------------- claims on the entry and the stop
\* C37: a technical YES position is not closed by the strike stop loss while
\* the latest price is above strike * (1 + gap), the threshold it was
\* opened at, nor a technical NO position while the latest price is below
\* strike * (1 - gap).
C37_NoStopBeyondEntryThreshold ==
    \A t \in DOMAIN arbitragePositions, y \in ExitPrices, n \in ExitPrices,
       h \in PriceHistories \ { << >> } :
        LET position == arbitragePositions[t]
            d == shouldCloseEarly(arbitragePositions, t, y, n, h)
        IN  /\ (/\ HoldsOnlyYes(position)
                /\ position.yesSide[1].strikePrice # 0
                /\ (Last(h) - position.yesSide[1].strikePrice) * 100000
                      > position.yesSide[1].strikePrice * STRIKE_GAP_PERCENT)
               => d.reason # "strike_stop_yes"
            /\ (/\ HoldsOnlyNo(position)
                /\ position.noSide[1].strikePrice # 0
                /\ (position.noSide[1].strikePrice - Last(h)) * 100000
                      > position.noSide[1].strikePrice * STRIKE_GAP_PERCENT)
               => d.reason # "strike_stop_no"

\* ------------------------------------------- claims on the period counters
\* the strategy type a ledger entry was counted under
entryStrategyType(position) ==
    IF \E leg \in { position.yesSide, position.noSide } :
           leg # << >> /\ leg[1].strategy = "Technical-Directional"
    THEN "technical" ELSE "arbitrage"

\* the operations that remove entries or legs from the ledger
RemovingOperations ==
    { "closePosition", "clearPosition", "clearAllPositions", "autoCleanupPositions" }

\* C38: the period counter of a bucket, series and strategy type never
\* decreases while the bucket lasts; closePosition, clearPosition,
\* clearAllPositions and autoCleanupPositions leave the counters as they
\* are; and once the counter of the bucket is at its maximum no step
\* opens a further position of that series and type in the bucket, whether
\* or not the earlier ones are still in the ledger.
C38_PeriodCountersKept ==
    [][ /\ last'.op \in RemovingOperations => positionsByCandle' = positionsByCandle
        /\ \A seriesTicker \in Series, strategyType \in StrategyTypes :
              LET before == getPositionsInCurrentCandle(positionsByCandle,
                                CurrentCandle', seriesTicker, strategyType)
                  after  == getPositionsInCurrentCandle(positionsByCandle',
                                CurrentCandle', seriesTicker, strategyType)
              IN  /\ after >= before
                  /\ (before >= maxPositionsOf(strategyType) /\ CurrentCandle' = CurrentCandle)
                     => /\ after = before
                        /\ \A t \in DOMAIN arbitragePositions' :
                              (/\ extractSeriesTicker(t) = seriesTicker
                               /\ entryStrategyType(arbitragePositions'[t]) = strategyType)
                              => /\ t \in DOMAIN arbitragePositions
                                 /\ arbitragePositions'[t].entryTime
                                      = arbitragePositions[t].entryTime
      ]_vars

\* a call was refused for the counter of its bucket although the ledger
\* holds no entry any more
C38_Witness ==
    /\ last.op = "executeArbitrage"
    /\ last.outcome = "rate_limit"
    /\ arbitragePositions = EmptyMap
    /\ \E strategyType \in StrategyTypes :
          getPositionsInCurrentCandle(positionsByCandle, CurrentCandle,
              extractSeriesTicker(last.ticker), strategyType)
            >= maxPositionsOf(strategyType)

====
